---- MODULE Spec2Model ----
(***************************************************************************)
(* Model of the Steam game data dashboard (src/steam_streamlit_app.py):    *)
(* the normalisation of an uploaded record set by clean_data and the       *)
(* session steps of main that lead to it.                                  *)
(*                                                                         *)
(* Text is modelled as a sequence of characters, one string per character. *)
(* The source's Chinese characters are written as one token each:          *)
(*   yuan jia = original price        zhe kou jia = discount price         *)
(*   jia ge = price                   hao ping lv = rating                 *)
(*   xiang xi = detailed              ji ben = basic                       *)
(*   biao qian = tag                  biao qian lie biao3 = tag list       *)
(*   fa bu shi jian = release time    fa bu ri qi = release date           *)
(*   fa bu nian fen = release year    wei zhi = unknown                    *)
(*   mian fei = free                  CNY = the yuan sign                  *)
(*                                                                         *)
(* Numbers (Python floats) are kept in hundredths: 49.99 is 4999.          *)
(***************************************************************************)
EXTENDS Integers, Sequences, FiniteSets, TLC

VARIABLES
    pc,       \* where the run of main is
    df,       \* the record set read from the uploaded CSV file
    out,      \* the frame clean_data returned
    notices,  \* the fields clean_data warned about, in order
    err,      \* the exception that ended clean_data, or "none"
    again,    \* the outcome of clean_data applied to its own result
    arg,      \* a raw cell value handed to one of the cell converters
    res,      \* the converter that ran and the value it returned
    view      \* the sliders, the filtered set and the analytics of the run

vars == <<pc, df, out, notices, err, again, arg, res, view>>

-----------------------------------------------------------------------------
(* Bounds of the model *)

MaxCols == 2
MaxRows == 2

-----------------------------------------------------------------------------
(* Cell values: NaN/None/NaT, str, float, list of str, Timestamp.          *)
(* Every cell is a record with the same fields; k tells which one counts.  *)

NaN == [k |-> "nan", n |-> 0, s |-> <<>>, l |-> <<>>]
Str(s) == [k |-> "str", n |-> 0, s |-> s, l |-> <<>>]
Num(n) == [k |-> "num", n |-> n, s |-> <<>>, l |-> <<>>]
Lst(l) == [k |-> "list", n |-> 0, s |-> <<>>, l |-> l]
Date(y, m, d) == [k |-> "date", n |-> y * 10000 + m * 100 + d, s |-> <<>>, l |-> <<>>]
(* an exception raised while a cell was being converted *)
Raised(e) == [k |-> "raise", n |-> 0, s |-> <<e>>, l |-> <<>>]

isna(v) == v.k = "nan"
YearOf(v) == v.n \div 10000
MonthOf(v) == (v.n \div 100) % 100
DayOf(v) == v.n % 100

-----------------------------------------------------------------------------
(* Text helpers: what Python's str methods and the re module do *)

Digits == <<"0", "1", "2", "3", "4", "5", "6", "7", "8", "9">>
IsDigit(c) == \E i \in 1..10 : Digits[i] = c
DigitVal(c) == (CHOOSE i \in 1..10 : Digits[i] = c) - 1

Upper == <<"A", "B", "C", "D", "E", "F", "G", "H", "I", "J", "K", "L", "M",
           "N", "O", "P", "Q", "R", "S", "T", "U", "V", "W", "X", "Y", "Z">>
Lower == <<"a", "b", "c", "d", "e", "f", "g", "h", "i", "j", "k", "l", "m",
           "n", "o", "p", "q", "r", "s", "t", "u", "v", "w", "x", "y", "z">>

(* str.lower() *)
lower(s) ==
    [i \in 1..Len(s) |->
        IF \E j \in 1..26 : Upper[j] = s[i]
        THEN Lower[CHOOSE j \in 1..26 : Upper[j] = s[i]]
        ELSE s[i]]

SetMin(S) == CHOOSE x \in S : \A y \in S : x <= y
SetMax(S) == CHOOSE x \in S : \A y \in S : x >= y

(* sub in s *)
Contains(sub, s) ==
    \E i \in 1..(Len(s) - Len(sub) + 1) : SubSeq(s, i, i + Len(sub) - 1) = sub

(* the end of the longest run of digits of s that starts at i (i-1: none) *)
RunEnd(s, i) ==
    LET stop == {k \in i..Len(s) : ~IsDigit(s[k])}
    IN  IF stop = {} THEN Len(s) ELSE SetMin(stop) - 1

RECURSIVE DecVal(_)
DecVal(ds) ==
    IF ds = <<>> THEN 0
    ELSE DecVal(SubSeq(ds, 1, Len(ds) - 1)) * 10 + DigitVal(ds[Len(ds)])

RECURSIVE DecStr(_)
DecStr(n) == IF n < 10 THEN <<Digits[n + 1]>> ELSE DecStr(n \div 10) \o <<Digits[(n % 10) + 1]>>

(* float(text) of digits, an optional point, digits; kept to two decimals *)
FloatOf(ip, fp) ==
    LET f2 == SubSeq(fp \o <<"0", "0">>, 1, 2)
    IN  DecVal(ip) * 100 + DecVal(f2)

(* repr of a float: "49.99", "60.0", "9.5" *)
AbsStr(n) ==
    LET ip == n \div 100
        fr == n % 100
        fs == IF fr % 10 = 0 THEN <<Digits[(fr \div 10) + 1]>>
              ELSE <<Digits[(fr \div 10) + 1], Digits[(fr % 10) + 1]>>
    IN  DecStr(ip) \o <<".">> \o fs

FloatStr(n) == IF n < 0 THEN <<"-">> \o AbsStr(0 - n) ELSE AbsStr(n)

Pad2(n) == IF n < 10 THEN <<"0">> \o DecStr(n) ELSE DecStr(n)

RECURSIVE ListRepr(_)
ListRepr(l) ==
    IF l = <<>> THEN <<>>
    ELSE (IF Len(l) > 1 THEN ListRepr(SubSeq(l, 1, Len(l) - 1)) \o <<",", " ">> ELSE <<>>)
         \o <<"'">> \o l[Len(l)] \o <<"'">>

(* str(v) *)
StrOf(v) ==
    CASE v.k = "str" -> v.s
      [] v.k = "num" -> FloatStr(v.n)
      [] v.k = "date" -> DecStr(YearOf(v)) \o <<"-">> \o Pad2(MonthOf(v)) \o <<"-">>
                         \o Pad2(DayOf(v)) \o <<" ", "0", "0", ":", "0", "0", ":", "0", "0">>
      [] v.k = "list" -> <<"[">> \o ListRepr(v.l) \o <<"]">>
      [] OTHER -> <<"n", "a", "n">>

(* str.replace(c, "") for each c of a set of characters *)
RemoveChars(s, cs) == SelectSeq(s, LAMBDA c : c \notin cs)

(* str.strip() *)
strip(s) ==
    LET keep == {i \in 1..Len(s) : s[i] # " "}
    IN  IF keep = {} THEN <<>> ELSE SubSeq(s, SetMin(keep), SetMax(keep))

(* str.split(","): always at least one piece *)
RECURSIVE split(_)
split(s) ==
    LET commas == {i \in 1..Len(s) : s[i] = ","}
    IN  IF commas = {} THEN <<s>>
        ELSE LET i == SetMin(commas)
             IN  <<SubSeq(s, 1, i - 1)>> \o split(SubSeq(s, i + 1, Len(s)))

UNKNOWN == <<"wei", "zhi">>
FREE == <<"mian", "fei">>

-----------------------------------------------------------------------------
(* The four cell converters nested in clean_data *)

(* float(m.group()) for the match of r'\d+\.?\d*' whose digits are s[i..j] *)
price_match(s, i, j) ==
    IF j + 1 <= Len(s) /\ s[j + 1] = "."
    THEN Num(FloatOf(SubSeq(s, i, j), SubSeq(s, j + 2, RunEnd(s, j + 2))))
    ELSE Num(FloatOf(SubSeq(s, i, j), <<>>))

(* a search that stops at the decimal point *)
price_search_int(s, digs) ==
    IF digs = {} THEN Num(0)
    ELSE Num(FloatOf(SubSeq(s, SetMin(digs), RunEnd(s, SetMin(digs))), <<>>))

(* re.search(r'\d+\.?\d*', s): the match starts at the first digit of s *)
price_search(s, digs) ==
    IF digs = {} THEN Num(0) ELSE price_match(s, SetMin(digs), RunEnd(s, SetMin(digs)))

(* a conversion that leaves a missing price missing *)
clean_price_keeps_null(price) ==
    IF isna(price) THEN NaN
    ELSE price_search(StrOf(price), {i \in 1..Len(StrOf(price)) : IsDigit(StrOf(price)[i])})

clean_price(price) ==
    IF isna(price) \/ price = Str(UNKNOWN) \/ price = Str(FREE) THEN Num(0)
    ELSE price_search(StrOf(price), {i \in 1..Len(StrOf(price)) : IsDigit(StrOf(price)[i])})

(* the starts of the digits that run up to a "%" *)
PercentRuns(s) ==
    {i \in 1..Len(s) : IsDigit(s[i]) /\ RunEnd(s, i) < Len(s) /\ s[RunEnd(s, i) + 1] = "%"}

(* a match that keeps one digit only *)
rating_match_digit(s, i) == Num(DigitVal(s[i]) * 100)

(* float(m.group(1)) for the match of r'(\d+)%' found first *)
rating_match(s, i) == Num(DecVal(SubSeq(s, i, RunEnd(s, i))) * 100)

clean_rating(rating) ==
    IF isna(rating) \/ rating = Str(UNKNOWN) THEN NaN
    ELSE IF rating.k = "str" /\ Contains(<<"%">>, rating.s) /\ PercentRuns(rating.s) # {}
    THEN rating_match(rating.s, SetMin(PercentRuns(rating.s)))
    ELSE IF rating.k = "num" THEN Num(rating.n)
    ELSE NaN

(* [tag.strip() for tag in tags.split(',')] when tags is not empty *)
tag_list(t) ==
    IF t # <<>> THEN Lst([i \in 1..Len(split(t)) |-> strip(split(t)[i])]) ELSE Lst(<<>>)

(* pd.isna of a list is an array, and `array or ...` takes its truth value: *)
(* an error for two or more elements, False for one element, and for none  *)
(* False or an error depending on the numpy release (strict).              *)
clean_tags(tags, strict) ==
    IF tags.k = "list"
    THEN IF Len(tags.l) >= 2 \/ (Len(tags.l) = 0 /\ strict)
         THEN Raised("ValueError")
         ELSE Lst(<<>>)
    ELSE IF isna(tags) \/ tags = Str(UNKNOWN) \/ tags = Str(<<"[", "]">>) THEN Lst(<<>>)
    ELSE IF tags.k = "str" THEN tag_list(RemoveChars(tags.s, {"[", "]", "'", "\""}))
    ELSE Lst(<<>>)

IsLeap(y) == (y % 4 = 0 /\ y % 100 # 0) \/ y % 400 = 0
DaysIn(y, m) ==
    IF m = 2 THEN (IF IsLeap(y) THEN 29 ELSE 28)
    ELSE IF m \in {4, 6, 9, 11} THEN 30 ELSE 31

(* pd.to_datetime of a year, month, day: a Timestamp when it is a calendar *)
(* date that a Timestamp can hold, an exception (caught: NaN) otherwise.   *)
to_datetime(y, m, d) ==
    IF y >= 1678 /\ y <= 2261 /\ m >= 1 /\ m <= 12 /\ d >= 1 /\ d <= DaysIn(y, m)
    THEN Date(y, m, d)
    ELSE NaN

AllDigits(s) == \A i \in 1..Len(s) : IsDigit(s[i])

(* re.match(r'\d{4}-\d{1,2}-', s): where the month ends, 0 when no match *)
MonthEnd(s) ==
    IF Len(s) >= 7 /\ AllDigits(SubSeq(s, 1, 4)) /\ s[5] = "-" /\ IsDigit(s[6])
    THEN (IF s[7] = "-" THEN 6
          ELSE IF IsDigit(s[7]) /\ Len(s) >= 8 /\ s[8] = "-" THEN 7 ELSE 0)
    ELSE 0

(* ... followed by \d{1,2}: where the day ends, 0 when no match *)
DayEnd(s, me) ==
    IF me > 0 /\ Len(s) >= me + 2 /\ IsDigit(s[me + 2])
    THEN (IF Len(s) >= me + 3 /\ IsDigit(s[me + 3]) THEN me + 3 ELSE me + 2)
    ELSE 0

(* pd.to_datetime(date) of a text that starts with year-month-day: the     *)
(* date when nothing follows the day                                        *)
date_match(s, me, de) ==
    IF de = Len(s)
    THEN to_datetime(DecVal(SubSeq(s, 1, 4)), DecVal(SubSeq(s, 6, me)),
                     DecVal(SubSeq(s, me + 2, de)))
    ELSE NaN

(* re.search(r'(\d{4})', s) and pd.to_datetime of the four digits *)
year_match(s, years) ==
    IF years # {} THEN to_datetime(DecVal(SubSeq(s, SetMin(years), SetMin(years) + 3)), 1, 1)
    ELSE NaN

date_of_text(s) ==
    IF DayEnd(s, MonthEnd(s)) > 0
    THEN date_match(s, MonthEnd(s), DayEnd(s, MonthEnd(s)))
    ELSE year_match(s, {i \in 1..(Len(s) - 3) : AllDigits(SubSeq(s, i, i + 3))})

clean_date(date) ==
    IF isna(date) \/ date = Str(UNKNOWN) THEN NaN
    ELSE IF date.k = "date" THEN date
    ELSE date_of_text(StrOf(date))

-----------------------------------------------------------------------------
(* Column names of the source *)

COL_ORIGINAL == <<"yuan", "jia">>
COL_DISCOUNT == <<"zhe", "kou", "jia">>
COL_PRICE == <<"jia", "ge">>
COL_RATING_DETAILED == <<"xiang", "xi", "hao", "ping", "lv">>
COL_RATING_BASIC == <<"ji", "ben", "hao", "ping", "lv">>
COL_RATING == <<"hao", "ping", "lv">>
COL_TAGS_DETAILED == <<"xiang", "xi", "biao", "qian">>
COL_TAGS_BASIC == <<"ji", "ben", "biao", "qian">>
COL_TAGS == <<"biao", "qian", "lie", "biao3">>
COL_DATE_DETAILED == <<"xiang", "xi", "fa", "bu", "ri", "qi">>
COL_DATE_BASIC == <<"ji", "ben", "fa", "bu", "shi", "jian">>
COL_DATE == <<"fa", "bu", "shi", "jian">>
COL_YEAR == <<"fa", "bu", "nian", "fen">>

(* a scan for the price synonym that forgets col.lower() *)
IsPriceNameCaseSensitive(col) ==
    Contains(<<"jia", "ge">>, col) \/ Contains(<<"p", "r", "i", "c", "e">>, col)

(* the column name tests of the four synonym scans *)
IsPriceName(col) ==
    Contains(<<"jia", "ge">>, col) \/ Contains(<<"p", "r", "i", "c", "e">>, lower(col))
IsRatingName(col) ==
    Contains(<<"hao", "ping">>, col) \/ Contains(<<"r", "a", "t", "i", "n", "g">>, lower(col))
IsTagName(col) ==
    Contains(<<"biao", "qian">>, col) \/ Contains(<<"t", "a", "g">>, lower(col))
IsDateName(col) ==
    \/ Contains(<<"fa", "bu">>, col)
    \/ Contains(<<"ri", "qi">>, col)
    \/ Contains(<<"d", "a", "t", "e">>, lower(col))
    \/ Contains(<<"r", "e", "l", "e", "a", "s", "e">>, lower(col))

-----------------------------------------------------------------------------
(* A DataFrame: the ordered column names, the cells of each column, and    *)
(* the number of rows.                                                     *)

NoFrame == [cols |-> <<>>, data |-> <<>>, n |-> 0]

InColumns(d, c) == \E i \in 1..Len(d.cols) : d.cols[i] = c

ColIdx(d, c) == CHOOSE i \in 1..Len(d.cols) : d.cols[i] = c

(* df[c] *)
Col(d, c) == d.data[ColIdx(d, c)]

(* df[c] = vals: an existing column is replaced in place, a new one is    *)
(* added after the last column                                             *)
SetCol(d, c, vals) ==
    IF InColumns(d, c)
    THEN [d EXCEPT !.data[ColIdx(d, c)] = vals]
    ELSE [d EXCEPT !.cols = Append(d.cols, c), !.data = Append(d.data, vals)]

(* Series.apply(f) *)
prices_of(vals) == [i \in 1..Len(vals) |-> clean_price(vals[i])]
ratings_of(vals) == [i \in 1..Len(vals) |-> clean_rating(vals[i])]
dates_of(vals) == [i \in 1..Len(vals) |-> clean_date(vals[i])]

Const(d, v) == [i \in 1..d.n |-> v]

(* an assignment that takes the new values by position, not by row index: *)
(* the k-th row of the mask takes the k-th value of new                    *)
SetWhereByPosition(vals, mask, new) ==
    [i \in 1..Len(vals) |->
        IF mask[i] THEN new[Cardinality({j \in 1..i : mask[j]})] ELSE vals[i]]

(* an assignment that replaces the whole column as soon as one row of it   *)
(* is in the mask                                                          *)
SetWhereAll(vals, mask, new) ==
    IF \E i \in 1..Len(vals) : mask[i] THEN new ELSE vals

(* df.loc[mask, c] = new[mask]: the rows of the mask take the value of the *)
(* same row of new (the assignment aligns on the row index)                *)
SetWhere(vals, mask, new) ==
    [i \in 1..Len(vals) |-> IF mask[i] THEN new[i] ELSE vals[i]]

(* the exception of the first cell whose conversion raised, or "none" *)
FirstRaise(vals) ==
    LET bad == {i \in 1..Len(vals) : vals[i].k = "raise"}
    IN  IF bad = {} THEN "none" ELSE vals[SetMin(bad)].s[1]

(* the dtype pandas gives a column of these cells *)
InferDType(vals) ==
    IF Len(vals) = 0 THEN "object"
    ELSE IF \A i \in 1..Len(vals) : vals[i].k \in {"nan", "num"} THEN "float64"
    ELSE IF \A i \in 1..Len(vals) : vals[i].k \in {"nan", "date"} THEN "datetime64"
    ELSE "object"

-----------------------------------------------------------------------------
(* clean_data, one step per field.  A step takes and gives a record        *)
(*   d  the frame so far          w  the st.warning notices so far         *)
(*   e  the exception raised, or "none"                                    *)
(*   dt the dtype of the release time column                               *)
(* A step after an exception does nothing: the call has ended.             *)

Begin(d) == [d |-> d, w |-> <<>>, e |-> "none", dt |-> "none"]

Fail(r, e) == [r EXCEPT !.e = e]

(* df[c] = vals, as a step outcome *)
Assign(r, d, c, vals) == [r EXCEPT !.d = SetCol(d, c, vals)]

(* the same, unless the conversion of a cell raised *)
AssignChecked(r, d, c, vals) ==
    IF FirstRaise(vals) # "none" THEN Fail(r, FirstRaise(vals)) ELSE Assign(r, d, c, vals)

(* df[c] = v for every row, with the st.warning of the field *)
AssignDefault(r, d, c, v, field) ==
    [r EXCEPT !.d = SetCol(d, c, Const(d, v)), !.w = Append(r.w, field)]

(* a fill that also replaces the prices that are 0 *)
fillna_or_zero(vals, other) ==
    [i \in 1..Len(vals) |-> IF isna(vals[i]) \/ vals[i] = Num(0) THEN other[i] ELSE vals[i]]

(* Series.fillna(other) *)
fillna(vals, other) == [i \in 1..Len(vals) |-> IF isna(vals[i]) THEN other[i] ELSE vals[i]]

(* lines 153-156: if c in df.columns: df[c] = df[c].apply(clean_price) *)
price_cleaned(d, c) ==
    IF InColumns(d, c) THEN SetCol(d, c, prices_of(Col(d, c))) ELSE d

(* lines 159-173, d the frame with its two price columns converted *)
price_resolve(r, d, price_columns) ==
    IF InColumns(d, COL_DISCOUNT) /\ InColumns(d, COL_ORIGINAL)
    THEN Assign(r, d, COL_PRICE, fillna(Col(d, COL_DISCOUNT), Col(d, COL_ORIGINAL)))
    ELSE IF InColumns(d, COL_DISCOUNT) THEN Assign(r, d, COL_PRICE, Col(d, COL_DISCOUNT))
    ELSE IF InColumns(d, COL_ORIGINAL) THEN Assign(r, d, COL_PRICE, Col(d, COL_ORIGINAL))
    ELSE IF price_columns # <<>>
    THEN Assign(r, d, COL_PRICE, prices_of(Col(d, price_columns[1])))
    ELSE AssignDefault(r, d, COL_PRICE, Num(0), "price")

(* 1. price: lines 152-173 *)
price_step(r) ==
    IF r.e # "none" THEN r
    ELSE CHOOSE x \in {price_resolve(r, d, SelectSeq(d.cols, IsPriceName)) :
                        d \in {price_cleaned(price_cleaned(r.d, COL_ORIGINAL),
                                             COL_DISCOUNT)}} : TRUE

(* lines 190-191: the detailed column, when there is one, gives the column *)
detailed(d, det, c, vals) == IF InColumns(d, det) THEN SetCol(d, c, vals) ELSE d

(* lines 192-205, d the frame after the detailed column was taken *)
rating_resolve(r, d, rating_columns) ==
    IF InColumns(d, COL_RATING_BASIC) /\ InColumns(d, COL_RATING)
    THEN Assign(r, d, COL_RATING,
                SetWhere(Col(d, COL_RATING),
                         [i \in 1..d.n |-> isna(Col(d, COL_RATING)[i])],
                         ratings_of(Col(d, COL_RATING_BASIC))))
    ELSE IF InColumns(d, COL_RATING_BASIC)
    THEN Assign(r, d, COL_RATING, ratings_of(Col(d, COL_RATING_BASIC)))
    ELSE IF rating_columns # <<>>
    THEN Assign(r, d, COL_RATING, ratings_of(Col(d, rating_columns[1])))
    ELSE AssignDefault(r, d, COL_RATING, NaN, "rating")

(* 2. rating: lines 189-205 *)
rating_step(r) ==
    IF r.e # "none" THEN r
    ELSE CHOOSE x \in {rating_resolve(r, d, SelectSeq(d.cols, IsRatingName)) :
                        d \in {detailed(r.d, COL_RATING_DETAILED, COL_RATING,
                                        ratings_of(IF InColumns(r.d, COL_RATING_DETAILED)
                                              THEN Col(r.d, COL_RATING_DETAILED)
                                              ELSE <<>>))}} : TRUE

(* Series.apply(clean_tags) *)
tags_of(vals, strict) == [i \in 1..Len(vals) |-> clean_tags(vals[i], strict)]

(* len(x) of the mask lambda: a TypeError for a float (NaN) or a Timestamp *)
HasLen(v) == v.k \in {"list", "str"}
LenIsZero(v) == (v.k = "list" /\ v.l = <<>>) \/ (v.k = "str" /\ v.s = <<>>)

(* lines 229-230: the rows whose list is empty take the basic column's tags *)
tags_fill(r, d, cur, basic, strict) ==
    IF \E i \in 1..d.n : ~HasLen(cur[i]) THEN Fail(r, "TypeError")
    ELSE AssignChecked(r, d, COL_TAGS,
                       SetWhere(cur, [i \in 1..d.n |-> LenIsZero(cur[i])],
                                [i \in 1..d.n |-> IF LenIsZero(cur[i])
                                                  THEN clean_tags(basic[i], strict)
                                                  ELSE cur[i]]))

(* lines 227-241, d the frame after the detailed column was taken *)
tags_resolve(r, d, tag_columns, strict) ==
    IF InColumns(d, COL_TAGS_BASIC) /\ InColumns(d, COL_TAGS)
    THEN tags_fill(r, d, Col(d, COL_TAGS), Col(d, COL_TAGS_BASIC), strict)
    ELSE IF InColumns(d, COL_TAGS_BASIC)
    THEN AssignChecked(r, d, COL_TAGS, tags_of(Col(d, COL_TAGS_BASIC), strict))
    ELSE IF tag_columns # <<>>
    THEN AssignChecked(r, d, COL_TAGS, tags_of(Col(d, tag_columns[1]), strict))
    ELSE AssignDefault(r, d, COL_TAGS, Lst(<<>>), "tags")

(* lines 225-226, then the rest unless a conversion raised *)
tags_detailed(r, det, strict) ==
    IF FirstRaise(det) # "none" THEN Fail(r, FirstRaise(det))
    ELSE CHOOSE x \in {tags_resolve(r, d, SelectSeq(d.cols, IsTagName), strict) :
                        d \in {detailed(r.d, COL_TAGS_DETAILED, COL_TAGS, det)}} : TRUE

(* 3. tags: lines 224-241 *)
tags_step(r, strict) ==
    IF r.e # "none" THEN r
    ELSE CHOOSE x \in {tags_detailed(r, det, strict) :
                        det \in {IF InColumns(r.d, COL_TAGS_DETAILED)
                                 THEN tags_of(Col(r.d, COL_TAGS_DETAILED), strict)
                                 ELSE <<>>}} : TRUE

(* The dtype of the release time column after df.loc[mask, c] = new.  A    *)
(* datetime column stays one; a float column (all NaN) that takes a        *)
(* Timestamp in every row becomes a datetime column when pandas casts a    *)
(* fully replaced column to the new dtype (cast), an object column if not. *)
FilledDType(cur, vals, cast) ==
    IF \A i \in 1..Len(cur) : ~isna(cur[i]) THEN InferDType(cur)
    ELSE IF InferDType(cur) = "datetime64" THEN "datetime64"
    ELSE IF InferDType(cur) = "object" THEN "object"
    ELSE IF InferDType(vals) = "float64" THEN "float64"
    ELSE IF cast /\ InferDType(vals) = "datetime64" /\ \A i \in 1..Len(cur) : isna(cur[i])
         THEN "datetime64"
    ELSE "object"

(* df[c] = vals for the release time column, of dtype dt *)
AssignDate(r, d, vals, dt) == [r EXCEPT !.d = SetCol(d, COL_DATE, vals), !.dt = dt]

(* line 265: the rows without a date take the basic column's date *)
date_fill(r, d, cur, vals, cast) == AssignDate(r, d, vals, FilledDType(cur, vals, cast))

(* a column of converted dates, with the dtype pandas infers for it *)
date_apply(r, d, vals) == AssignDate(r, d, vals, InferDType(vals))

(* lines 263-276, d the frame after the detailed column was taken *)
date_resolve(r, d, date_columns, cast) ==
    IF InColumns(d, COL_DATE_BASIC) /\ InColumns(d, COL_DATE)
    THEN date_fill(r, d, Col(d, COL_DATE),
                   SetWhere(Col(d, COL_DATE),
                            [i \in 1..d.n |-> isna(Col(d, COL_DATE)[i])],
                            dates_of(Col(d, COL_DATE_BASIC))),
                   cast)
    ELSE IF InColumns(d, COL_DATE_BASIC)
    THEN date_apply(r, d, dates_of(Col(d, COL_DATE_BASIC)))
    ELSE IF date_columns # <<>>
    THEN date_apply(r, d, dates_of(Col(d, date_columns[1])))
    ELSE [r EXCEPT !.d = SetCol(d, COL_DATE, Const(d, NaN)),
                   !.dt = "float64",
                   !.w = Append(r.w, "date")]

(* 4. release time: lines 260-276 *)
date_step(r, cast) ==
    IF r.e # "none" THEN r
    ELSE CHOOSE x \in {date_resolve(r, d, SelectSeq(d.cols, IsDateName), cast) :
                        d \in {detailed(r.d, COL_DATE_DETAILED, COL_DATE,
                                        dates_of(IF InColumns(r.d, COL_DATE_DETAILED)
                                              THEN Col(r.d, COL_DATE_DETAILED)
                                              ELSE <<>>))}} : TRUE

(* Series.dt.year of one cell *)
year(v) == IF v.k = "date" THEN Num(YearOf(v) * 100) ELSE NaN

(* release year: lines 278-280.  The .dt accessor exists only on a column  *)
(* of datetime dtype; on any other it raises AttributeError.               *)
year_step(r) ==
    IF r.e # "none" THEN r
    ELSE IF InColumns(r.d, COL_DATE)
    THEN IF r.dt = "datetime64"
         THEN Assign(r, r.d, COL_YEAR, [i \in 1..r.d.n |-> year(Col(r.d, COL_DATE)[i])])
         ELSE Fail(r, "AttributeError")
    ELSE r

(* The steps in the order of the source, each taking the outcome of the    *)
(* one before it: the outcomes clean_data(df) can have.  There is more     *)
(* than one only where the outcome depends on the numpy release (strict)   *)
(* or on the pandas release (cast).                                        *)
clean_data(d) ==
    {year_step(r4) : r4 \in
        {date_step(r3, cast) : cast \in BOOLEAN, r3 \in
            {tags_step(r2, strict) : strict \in BOOLEAN, r2 \in
                {rating_step(r1) : r1 \in {price_step(Begin(d))}}}}}

-----------------------------------------------------------------------------
(* The uploaded record sets of the model.  The columns are up to MaxCols   *)
(* distinct names, in any order, of one field's family (its two named      *)
(* columns, the canonical name and an English synonym), alone or followed  *)
(* by a release time column every row of which holds a date.  A cell is    *)
(* the column's sample value or its missing value.                         *)

COL_PRICE_EN == <<"P", "r", "i", "c", "e">>
COL_RATING_EN == <<"R", "a", "t", "i", "n", "g">>
COL_TAGS_EN == <<"T", "a", "g", "s">>
COL_DATE_EN == <<"D", "a", "t", "e">>

FamPrice == {COL_ORIGINAL, COL_DISCOUNT, COL_PRICE, COL_PRICE_EN}
FamRating == {COL_RATING_DETAILED, COL_RATING_BASIC, COL_RATING, COL_RATING_EN}
FamTags == {COL_TAGS_DETAILED, COL_TAGS_BASIC, COL_TAGS, COL_TAGS_EN}
FamDate == {COL_DATE_DETAILED, COL_DATE_BASIC, COL_DATE, COL_DATE_EN}
Families == {FamPrice, FamRating, FamTags, FamDate}

Known(c) ==
    CASE c = COL_ORIGINAL -> Str(<<"CNY", "6", "0">>)
      [] c = COL_DISCOUNT -> Str(<<"CNY", "4", "9", ".", "9", "9">>)
      [] c = COL_PRICE -> Str(<<"3", "0">>)
      [] c = COL_PRICE_EN -> Str(<<"9", ".", "5">>)
      [] c = COL_RATING_DETAILED -> Str(<<"9", "2", "%">>)
      [] c = COL_RATING_BASIC -> Str(<<"8", "0", "%">>)
      [] c = COL_RATING -> Str(<<"5", "0", "%">>)
      [] c = COL_RATING_EN -> Num(7700)
      [] c = COL_TAGS_DETAILED -> Str(<<"[", "'", "A", "'", ",", " ", "'", "B", "'", "]">>)
      [] c = COL_TAGS_BASIC -> Str(<<"C">>)
      [] c = COL_TAGS -> Str(<<"F">>)
      [] c = COL_TAGS_EN -> Str(<<"D", ",", "E">>)
      [] c = COL_DATE_DETAILED -> Str(<<"2", "0", "2", "1", "-", "3", "-", "1", "5">>)
      [] c = COL_DATE_BASIC -> Str(<<"2", "0", "1", "9">>)
      [] c = COL_DATE -> Str(<<"2", "0", "2", "0", "-", "0", "1", "-", "0", "2">>)
      [] c = COL_DATE_EN -> Str(<<"i", "n", " ", "2", "0", "1", "8">>)

Missing(c) ==
    CASE c = COL_DISCOUNT -> Str(FREE)
      [] c \in {COL_PRICE, COL_RATING_BASIC, COL_TAGS_EN, COL_DATE_BASIC} -> Str(UNKNOWN)
      [] c = COL_TAGS_DETAILED -> Str(<<"[", "]">>)
      [] OTHER -> NaN

Injective(f) == \A i, j \in DOMAIN f : i # j => f[i] # f[j]

(* the frame pd.read_csv gives for these columns and cells *)
read_csv(names, anchored, n, bits) ==
    [cols |-> IF anchored THEN Append(names, COL_DATE) ELSE names,
     data |-> LET cells == [c \in 1..Len(names) |->
                               [i \in 1..n |-> IF bits[c][i] THEN Known(names[c])
                                               ELSE Missing(names[c])]]
              IN  IF anchored THEN Append(cells, [i \in 1..n |-> Known(COL_DATE)])
                  ELSE cells,
     n |-> n]

-----------------------------------------------------------------------------
(* The analytics functions.  A function gives a record: fig tells whether  *)
(* it returned a figure, warned whether it called st.warning, and the      *)
(* other fields are the values it computed.  A quotient is kept exact, as  *)
(* [num, den].                                                             *)

RECURSIVE Sum(_)
Sum(s) == IF s = <<>> THEN 0 ELSE s[1] + Sum(Tail(s))

(* the numbers of s in ascending order *)
RECURSIVE Sorted(_)
Sorted(s) ==
    IF s = <<>> THEN <<>>
    ELSE LET i == CHOOSE i \in 1..Len(s) : \A j \in 1..Len(s) : s[i] <= s[j]
         IN  <<s[i]>> \o Sorted(SubSeq(s, 1, i - 1) \o SubSeq(s, i + 1, Len(s)))

Quot(num, den) == [num |-> num, den |-> den]

(* a <= b and a >= b for a number a and a quotient b with b.den > 0 *)
LeqQuot(a, b) == a * b.den <= b.num
GeqQuot(a, b) == a * b.den >= b.num

(* the 50% row of Series.describe(): the middle value, or the mean of the  *)
(* two middle values                                                       *)
Median(s) ==
    IF Len(s) % 2 = 1 THEN Quot(Sorted(s)[(Len(s) + 1) \div 2], 1)
    ELSE Quot(Sorted(s)[Len(s) \div 2] + Sorted(s)[(Len(s) \div 2) + 1], 2)

(* Series.describe() of a column of numbers that is not empty; std is the  *)
(* root of var, which is NaN (den = 0) for one number                      *)
describe(s) ==
    [count |-> Len(s),
     mean |-> Quot(Sum(s), Len(s)),
     median |-> Median(s),
     min |-> Sorted(s)[1],
     max |-> Sorted(s)[Len(s)],
     var |-> Quot(Len(s) * Sum([i \in 1..Len(s) |-> (s[i] \div 100) * (s[i] \div 100)])
                  - (Sum(s) \div 100) * (Sum(s) \div 100),
                  Len(s) * (Len(s) - 1))]

NoStats == [count |-> 0, mean |-> Quot(0, 0), median |-> Quot(0, 0), min |-> 0, max |-> 0,
            var |-> Quot(0, 0)]

(* df[rows]: the rows of d at the positions idx, in that order *)
Take(d, idx) ==
    [cols |-> d.cols,
     data |-> [c \in 1..Len(d.cols) |-> [k \in 1..Len(idx) |-> d.data[c][idx[k]]]],
     n |-> Len(idx)]

(* df.index: the positions of the rows of d, in ascending order *)
RowIndex(d) == [i \in 1..d.n |-> i]

(* the prices without the test valid_prices > 0 *)
valid_prices_with_zero(d) ==
    LET rows == SelectSeq(RowIndex(d), LAMBDA i : ~isna(Col(d, COL_PRICE)[i]))
    IN  [k \in 1..Len(rows) |-> Col(d, COL_PRICE)[rows[k]].n]

(* valid_prices = df['jia ge'].dropna(); valid_prices[valid_prices > 0] *)
valid_prices(d) ==
    LET rows == SelectSeq(RowIndex(d), LAMBDA i : ~isna(Col(d, COL_PRICE)[i]) /\ Col(d, COL_PRICE)[i].n > 0)
    IN  [k \in 1..Len(rows) |-> Col(d, COL_PRICE)[rows[k]].n]

plot_price_distribution(d) ==
    IF valid_prices(d) = <<>>
    THEN [fig |-> FALSE, warned |-> TRUE, price_stats |-> NoStats]
    ELSE [fig |-> TRUE, warned |-> FALSE, price_stats |-> describe(valid_prices(d))]

(* valid_data: df.dropna(subset=[price, rating]) with price > 0 *)
valid_data(d) ==
    SelectSeq(RowIndex(d), LAMBDA i : /\ ~isna(Col(d, COL_PRICE)[i]) /\ ~isna(Col(d, COL_RATING)[i])
                        /\ Col(d, COL_PRICE)[i].n > 0)

(* Series.corr: the Pearson coefficient cov / sqrt(vx * vy), kept as the   *)
(* pair cov, vx * vy; NaN when a variance is zero, as it is for one row.   *)
(* Prices and ratings are taken in whole units.                            *)
NaNCorr == [nan |-> TRUE, cov |-> 0, vv |-> 0]
pearson(x, y) ==
    LET n == Len(x)
        cov == n * Sum([i \in 1..n |-> x[i] * y[i]]) - Sum(x) * Sum(y)
        vx == n * Sum([i \in 1..n |-> x[i] * x[i]]) - Sum(x) * Sum(x)
        vy == n * Sum([i \in 1..n |-> y[i] * y[i]]) - Sum(y) * Sum(y)
    IN  IF vx = 0 \/ vy = 0 THEN NaNCorr ELSE [nan |-> FALSE, cov |-> cov, vv |-> vx * vy]

plot_rating_price_correlation(d) ==
    IF valid_data(d) = <<>>
    THEN [fig |-> FALSE, warned |-> TRUE, corr |-> [nan |-> FALSE, cov |-> 0, vv |-> 1]]
    ELSE [fig |-> TRUE, warned |-> FALSE,
          corr |-> pearson([k \in 1..Len(valid_data(d)) |->
                               Col(d, COL_PRICE)[valid_data(d)[k]].n \div 100],
                           [k \in 1..Len(valid_data(d)) |->
                               Col(d, COL_RATING)[valid_data(d)[k]].n \div 100])]

(* corr >= p / q in the place of corr > p / q *)
CorrAtLeast(c, p, q) ==
    /\ ~c.nan
    /\ IF p >= 0 THEN c.cov >= 0 /\ q * q * c.cov * c.cov >= p * p * c.vv
       ELSE c.cov >= 0 \/ q * q * c.cov * c.cov <= p * p * c.vv

(* corr > p / q, for q > 0; a comparison with NaN is False *)
CorrAbove(c, p, q) ==
    /\ ~c.nan
    /\ IF p >= 0 THEN c.cov > 0 /\ q * q * c.cov * c.cov > p * p * c.vv
       ELSE c.cov >= 0 \/ q * q * c.cov * c.cov < p * p * c.vv

(* a chain whose negative bands mirror the positive ones *)
band_mirrored(c) ==
    IF CorrAbove(c, 1, 2) THEN "strong positive"
    ELSE IF CorrAbove(c, 3, 10) THEN "moderate positive"
    ELSE IF CorrAbove(c, 0, 1) THEN "weak positive"
    ELSE IF CorrAtLeast(c, 0 - 3, 10) THEN "weak negative"
    ELSE IF CorrAtLeast(c, 0 - 1, 2) THEN "moderate negative"
    ELSE "strong negative"

(* the if / elif chain of tab2 *)
band(c) ==
    IF CorrAbove(c, 1, 2) THEN "strong positive"
    ELSE IF CorrAbove(c, 3, 10) THEN "moderate positive"
    ELSE IF CorrAbove(c, 0, 1) THEN "weak positive"
    ELSE IF CorrAbove(c, 0 - 3, 10) THEN "weak negative"
    ELSE IF CorrAbove(c, 0 - 1, 2) THEN "moderate negative"
    ELSE "strong negative"

(* all_tags: the tags of every row, in order, without the empty ones *)
RECURSIVE Flatten(_)
Flatten(lists) ==
    IF lists = <<>> THEN <<>>
    ELSE SelectSeq(lists[1].l, LAMBDA tag : tag # <<>>) \o Flatten(Tail(lists))

Count(s, x) == Cardinality({i \in 1..Len(s) : s[i] = x})
(* the place where x was seen last *)
LastAt(s, x) == SetMax({i \in 1..Len(s) : s[i] = x})
FirstAt(s, x) == SetMin({i \in 1..Len(s) : s[i] = x})

(* Counter(all_tags).most_common(): by falling count, tags of one count in *)
(* the order in which they were first seen                                 *)
RECURSIVE most_common(_, _)
most_common(s, left) ==
    IF left = {} THEN <<>>
    ELSE LET x == CHOOSE x \in left : \A y \in left :
                      \/ Count(s, x) > Count(s, y)
                      \/ Count(s, x) = Count(s, y) /\ FirstAt(s, x) <= FirstAt(s, y)
         IN  <<[tag |-> x, count |-> Count(s, x)]>> \o most_common(s, left \ {x})

TopTags == 20

all_tags(d) == Flatten(Col(d, COL_TAGS))

plot_tags_bar(d) ==
    IF all_tags(d) = <<>>
    THEN [fig |-> FALSE, warned |-> TRUE, top_tags |-> <<>>]
    ELSE [fig |-> TRUE, warned |-> FALSE,
          top_tags |-> SubSeq(most_common(all_tags(d), {all_tags(d)[i] : i \in 1..Len(all_tags(d))}),
                              1, IF Cardinality({all_tags(d)[i] : i \in 1..Len(all_tags(d))}) < TopTags
                                 THEN Cardinality({all_tags(d)[i] : i \in 1..Len(all_tags(d))})
                                 ELSE TopTags)]

(* the word cloud: drawn, or not drawn when both attempts raise (fonts)    *)
plot_tags_wordcloud(d, drawn) ==
    IF all_tags(d) = <<>> THEN [fig |-> FALSE, warned |-> TRUE]
    ELSE [fig |-> drawn, warned |-> FALSE]

RatingThreshold == 85

(* the orders sort_values(by=rating, ascending=False) can give the rows    *)
(* idx: every order by falling rating (rows of one rating in any order)    *)
SortedByRating(d, idx) ==
    {s \in [1..Len(idx) -> {idx[k] : k \in 1..Len(idx)}] :
        /\ \A a, b \in 1..Len(idx) : a # b => s[a] # s[b]
        /\ \A a, b \in 1..Len(idx) :
              a < b => Col(d, COL_RATING)[s[a]].n >= Col(d, COL_RATING)[s[b]].n}

(* mean_price=None, the default of the parameter *)
NoMean == Quot(0, 0)

(* a threshold that, when no mean_price is given, is the mean of all the   *)
(* prices                                                                  *)
price_threshold_all(d, mean_price) ==
    IF mean_price = NoMean
    THEN Quot(Sum(valid_prices_with_zero(d)), Len(valid_prices_with_zero(d)))
    ELSE mean_price

(* price_threshold: the mean_price that is given, or the mean of the       *)
(* prices of valid_data when it is None                                    *)
price_threshold(d, mean_price) ==
    IF mean_price = NoMean
    THEN Quot(Sum([k \in 1..Len(valid_data(d)) |-> Col(d, COL_PRICE)[valid_data(d)[k]].n]),
              Len(valid_data(d)))
    ELSE mean_price

(* the rows of valid_data with rating >= 85 and price < price_threshold *)
high_value_rows_below(d, mean_price) ==
    SelectSeq(valid_data(d),
              LAMBDA i : /\ Col(d, COL_RATING)[i].n >= RatingThreshold * 100
                         /\ ~GeqQuot(Col(d, COL_PRICE)[i].n, price_threshold(d, mean_price)))

(* the rows of valid_data with rating >= 85 and price <= price_threshold *)
high_value_rows(d, mean_price) ==
    SelectSeq(valid_data(d),
              LAMBDA i : /\ Col(d, COL_RATING)[i].n >= RatingThreshold * 100
                         /\ LeqQuot(Col(d, COL_PRICE)[i].n, price_threshold(d, mean_price)))

(* find_high_value_games(df, mean_price): the results it can return *)
find_high_value_games(d, mean_price) ==
    IF valid_data(d) = <<>>
    THEN {[fig |-> FALSE, warned |-> TRUE, high_value_games |-> <<>>]}
    ELSE {[fig |-> TRUE, warned |-> FALSE, high_value_games |-> s] :
             s \in SortedByRating(d, high_value_rows(d, mean_price))}

-----------------------------------------------------------------------------
(* The run of main *)

NoResult == [d |-> NoFrame, e |-> "none"]
NoValue == [f |-> "none", v |-> NaN]

(* what main has computed and shown after clean_data: index holds, for     *)
(* each row of filtered_df, its position in df                             *)
NoView ==
    [price_range |-> <<0, 0>>, rating_range |-> <<0, 0>>,
     filtered_df |-> NoFrame, index |-> <<>>,
     price |-> [fig |-> FALSE, warned |-> FALSE, price_stats |-> NoStats],
     corr |-> [fig |-> FALSE, warned |-> FALSE, corr |-> NaNCorr],
     tags |-> [fig |-> FALSE, warned |-> FALSE, top_tags |-> <<>>],
     cloud |-> [fig |-> FALSE, warned |-> FALSE],
     high |-> [fig |-> FALSE, warned |-> FALSE, high_value_games |-> <<>>],
     shown |-> {}]

Init ==
    /\ pc = "start"
    /\ df = NoFrame
    /\ out = NoFrame
    /\ notices = <<>>
    /\ err = "none"
    /\ again = NoResult
    /\ arg = NaN
    /\ res = NoValue
    /\ view = NoView

(* main, lines 627-631: the uploaded file is read *)
Load ==
    /\ pc = "start"
    /\ \E fam \in Families, k \in 1..MaxCols, anchored \in BOOLEAN, n \in 0..MaxRows :
          /\ anchored => fam # FamDate
          /\ \E names \in [1..k -> fam] :
                /\ Injective(names)
                /\ \E bits \in [1..k -> [1..n -> BOOLEAN]] :
                      df' = read_csv(names, anchored, n, bits)
    /\ pc' = "loaded"
    /\ UNCHANGED <<out, notices, err, again, arg, res, view>>

(* main, lines 632-634: reading fails, the error is shown and st.stop()    *)
(* ends the run                                                             *)
ReadFail ==
    /\ pc = "start"
    /\ pc' = "stopped"
    /\ UNCHANGED <<df, out, notices, err, again, arg, res, view>>

(* main, line 704: df = clean_data(df).  An exception of clean_data is not *)
(* caught: it ends the run.                                                *)
Clean ==
    /\ pc = "loaded"
    /\ \E r \in clean_data(df) :
          /\ out' = IF r.e = "none" THEN r.d ELSE NoFrame
          /\ notices' = r.w
          /\ err' = r.e
          /\ pc' = IF r.e = "none" THEN "cleaned" ELSE "raised"
    /\ UNCHANGED <<df, again, arg, res, view>>

(* clean_data applied to the frame it returned *)
Reclean ==
    /\ pc = "cleaned"
    /\ \E r \in clean_data(out) :
          again' = [d |-> IF r.e = "none" THEN r.d ELSE NoFrame, e |-> r.e]
    /\ pc' = "recleaned"
    /\ UNCHANGED <<df, out, notices, err, arg, res, view>>

Next == Load \/ ReadFail \/ Clean

Spec == Init /\ [][Next]_vars

NextAgain == Load \/ ReadFail \/ Clean \/ Reclean

SpecAgain == Init /\ [][NextAgain]_vars

-----------------------------------------------------------------------------
(* The cell converters on their own.  A raw cell is a missing value, a     *)
(* number, a list, a Timestamp, or a text made of up to MaxPieces pieces   *)
(* of one field's alphabet; the texts the documentation of the converters  *)
(* names are added to them.                                                *)

MaxPieces == 3

RECURSIVE Texts(_, _)
Texts(P, n) ==
    IF n = 0 THEN {<<>>}
    ELSE Texts(P, n - 1) \cup {t \o q : t \in Texts(P, n - 1), q \in P}

PricePieces == {FREE, UNKNOWN, <<"CNY">>, <<"1">>, <<"9">>, <<".">>, <<"a">>}
RatingPieces == {UNKNOWN, <<"%">>, <<"9">>, <<"2">>, <<".">>, <<"a">>}
TagPieces == {<<"[">>, <<"]">>, <<"'">>, <<",">>, <<" ">>, <<"A">>, <<"B">>}
DatePieces ==
    {UNKNOWN, <<"2", "0", "2", "1">>, <<"0", "0", "0", "0">>, <<"-", "2">>,
     <<"-", "1", "3">>, <<"-", "3", "0">>, <<"-", "1", "5">>, <<"x">>, <<"9">>}

PriceExamples ==
    {<<"CNY", "4", "9", ".", "9", "9">>, <<"1", "9", "9">>, <<"a", "b", "c">>,
     <<"mian", "fei", "k", "a", "i", "w", "a", "n">>,
     <<"mian", "fei", " ", "(", "CNY", "6", "8", ")">>}
RatingExamples == {<<"9", "2", "%">>, <<"7", "7">>, <<"1", "5", "0", "%">>}
TagExamples ==
    {<<"[", "'", "A", "'", ",", " ", "'", "B", "'", "]">>,
     <<"A", ",", ",", "B">>, <<"A", ",", " ">>, <<"[", " ", "]">>}
DateExamples ==
    {<<"2", "0", "2", "1", "-", "0", "3", "-", "1", "5">>,
     <<"2", "0", "2", "0", "-", "0", "2", "-", "2", "9">>,
     <<"i", "n", " ", "2", "0", "1", "9">>}

(* the cells that are not texts; a list reaches clean_tags alone *)
OtherCells == {NaN, Num(7700), Num(0 - 500), Num(15000), Num(201900), Date(2020, 1, 2)}
ListCells == {Lst(<<>>), Lst(<<<<"A">>>>), Lst(<<<<"A">>, <<"B">>>>)}

PriceCells == OtherCells \cup {Str(s) : s \in Texts(PricePieces, MaxPieces) \cup PriceExamples}
RatingCells == OtherCells \cup {Str(s) : s \in Texts(RatingPieces, MaxPieces) \cup RatingExamples}
TagCells ==
    OtherCells \cup ListCells
    \cup {Str(s) : s \in Texts(TagPieces, MaxPieces) \cup TagExamples}
DateCells == OtherCells \cup {Str(s) : s \in Texts(DatePieces, MaxPieces) \cup DateExamples}

RawCells == PriceCells \cup RatingCells \cup TagCells \cup DateCells

InitCell ==
    /\ pc = "input"
    /\ arg \in RawCells
    /\ res = NoValue
    /\ df = NoFrame
    /\ out = NoFrame
    /\ notices = <<>>
    /\ err = "none"
    /\ again = NoResult
    /\ view = NoView

(* clean_price(arg) *)
ParsePrice ==
    /\ pc = "input"
    /\ arg \in PriceCells
    /\ res' = [f |-> "price", v |-> clean_price(arg)]
    /\ pc' = "parsed"
    /\ UNCHANGED <<df, out, notices, err, again, arg, view>>

(* clean_rating(arg) *)
ParseRating ==
    /\ pc = "input"
    /\ arg \in RatingCells
    /\ res' = [f |-> "rating", v |-> clean_rating(arg)]
    /\ pc' = "parsed"
    /\ UNCHANGED <<df, out, notices, err, again, arg, view>>

(* clean_tags(arg), on either kind of numpy release *)
ParseTags ==
    /\ pc = "input"
    /\ arg \in TagCells
    /\ \E strict \in BOOLEAN : res' = [f |-> "tags", v |-> clean_tags(arg, strict)]
    /\ pc' = "parsed"
    /\ UNCHANGED <<df, out, notices, err, again, arg, view>>

(* clean_date(arg) *)
ParseDate ==
    /\ pc = "input"
    /\ arg \in DateCells
    /\ res' = [f |-> "date", v |-> clean_date(arg)]
    /\ pc' = "parsed"
    /\ UNCHANGED <<df, out, notices, err, again, arg, view>>

(* a text that pd.read_csv reads as a number: an optional sign, digits     *)
(* with at most one point                                                  *)
NumericText(s) ==
    LET body == IF s # <<>> /\ s[1] = "-" THEN SubSeq(s, 2, Len(s)) ELSE s
    IN  /\ \E i \in 1..Len(body) : IsDigit(body[i])
        /\ \A i \in 1..Len(body) : IsDigit(body[i]) \/ body[i] = "."
        /\ Cardinality({i \in 1..Len(body) : body[i] = "."}) <= 1

(* the cells pd.read_csv can give: a missing value, a number, or a text    *)
(* that is neither empty nor a number                                      *)
CsvCell(v) == v.k \in {"nan", "num"} \/ (v.k = "str" /\ v.s # <<>> /\ ~NumericText(v.s))

(* the column a cell of each field is read from *)
SourceCols ==
    {c \in {COL_DISCOUNT, COL_RATING_BASIC, COL_TAGS_BASIC, COL_DATE_BASIC} :
        \/ c = COL_DISCOUNT /\ arg \in PriceCells
        \/ c = COL_RATING_BASIC /\ arg \in RatingCells
        \/ c = COL_TAGS_BASIC /\ arg \in TagCells
        \/ c = COL_DATE_BASIC /\ arg \in DateCells}

(* main, lines 627-631, for a file of one record: the cell in one source   *)
(* column, and a dated release time column unless the cell is the date     *)
LoadCell ==
    /\ pc = "input"
    /\ CsvCell(arg)
    /\ \E c \in SourceCols :
          df' = IF c = COL_DATE_BASIC
                THEN [cols |-> <<c>>, data |-> <<<<arg>>>>, n |-> 1]
                ELSE [cols |-> <<c, COL_DATE>>, data |-> <<<<arg>>, <<Known(COL_DATE)>>>>, n |-> 1]
    /\ pc' = "loaded"
    /\ UNCHANGED <<out, notices, err, again, arg, res, view>>

NextCell == ParsePrice \/ ParseRating \/ ParseTags \/ ParseDate \/ LoadCell \/ Clean

SpecCell == InitCell /\ [][NextCell]_vars

-----------------------------------------------------------------------------
(* The run of main after clean_data: sliders, filter and the five tabs.    *)
(* The uploaded file holds up to MaxGames games with a name, a discount    *)
(* price, a basic rating, basic tags and a release time.                   *)

MaxGames == 3

COL_NAME == <<"you", "xi", "ming", "cheng">>

GamePrices == {Str(FREE), Str(<<"CNY", "1", "0">>), Str(<<"CNY", "3", "0">>)}
GameRatings == {Str(UNKNOWN), Str(<<"8", "0", "%">>), Str(<<"9", "0", "%">>)}
GameTags(i) ==
    CASE i = 1 -> Str(UNKNOWN)
      [] i = 2 -> Str(<<"B", ",", "A">>)
      [] i = 3 -> Str(<<"B">>)
      [] OTHER -> Str(<<"A", ",", ",", "C">>)

(* main, lines 627-631: the uploaded file of games is read *)
LoadGames ==
    /\ pc = "start"
    /\ \E n \in 1..MaxGames :
          \E prices \in [1..n -> GamePrices], ratings \in [1..n -> GameRatings] :
              df' = [cols |-> <<COL_NAME, COL_DISCOUNT, COL_RATING_BASIC, COL_TAGS_BASIC, COL_DATE>>,
                     data |-> <<[i \in 1..n |-> Str(<<"g">> \o DecStr(i))], prices, ratings,
                                [i \in 1..n |-> GameTags(i)],
                                [i \in 1..n |-> Known(COL_DATE)]>>,
                     n |-> n]
    /\ pc' = "loaded"
    /\ UNCHANGED <<out, notices, err, again, arg, res, view>>

(* the numbers of a column that are not NaN *)
Values(col) == {col[i].n : i \in {j \in 1..Len(col) : ~isna(col[j])}}

(* lines 709-710 and 720-721: the ends of the two sliders *)
price_min == SetMin(Values(Col(out, COL_PRICE)))
price_max == SetMax(Values(Col(out, COL_PRICE)))
rating_min == IF Values(Col(out, COL_RATING)) = {} THEN 0 ELSE SetMin(Values(Col(out, COL_RATING)))
rating_max == IF Values(Col(out, COL_RATING)) = {} THEN 10000 ELSE SetMax(Values(Col(out, COL_RATING)))

(* the ranges a slider from lo to hi can return: the ends and the values   *)
(* of the column between them                                              *)
Ranges(lo, hi, col) ==
    {r \in (Values(col) \cup {lo, hi}) \X (Values(col) \cup {lo, hi}) : lo <= r[1] /\ r[1] <= r[2] /\ r[2] <= hi}

(* a filter that leaves out the ends of the ranges *)
in_ranges_open(price, rating, pr, rr) ==
    /\ ~isna(price) /\ price.n > pr[1] /\ price.n < pr[2]
    /\ ~isna(rating) /\ rating.n > rr[1] /\ rating.n < rr[2]

(* a filter that lets the records without a rating pass *)
in_ranges_or_unknown(price, rating, pr, rr) ==
    /\ ~isna(price) /\ price.n >= pr[1] /\ price.n <= pr[2]
    /\ isna(rating) \/ (rating.n >= rr[1] /\ rating.n <= rr[2])

(* lines 732-737: the mask of the filter; a comparison with NaN is False *)
in_ranges(price, rating, pr, rr) ==
    /\ ~isna(price) /\ price.n >= pr[1] /\ price.n <= pr[2]
    /\ ~isna(rating) /\ rating.n >= rr[1] /\ rating.n <= rr[2]

filter_rows(d, pr, rr) ==
    SelectSeq(RowIndex(d), LAMBDA i : in_ranges(Col(d, COL_PRICE)[i], Col(d, COL_RATING)[i], pr, rr))

(* main, lines 706-738: the sliders are read and the filter is applied *)
Filter ==
    /\ pc = "cleaned"
    /\ \E pr \in Ranges(price_min, price_max, Col(out, COL_PRICE)),
          rr \in Ranges(rating_min, rating_max, Col(out, COL_RATING)) :
          view' = [view EXCEPT !.price_range = pr, !.rating_range = rr,
                               !.index = filter_rows(out, pr, rr),
                               !.filtered_df = Take(out, filter_rows(out, pr, rr))]
    /\ pc' = "filtered"
    /\ UNCHANGED <<df, out, notices, err, again, arg, res>>

Messages(name, r) == IF r.warned THEN {<<"warning", name>>} ELSE {}

(* main, lines 761-774: fig_price, mean_price = plot_price_distribution(): *)
(* unpacking the None of the no-data case raises TypeError, which ends the *)
(* run; otherwise the chart and the statistics are shown                   *)
Tab1 ==
    /\ pc = "filtered"
    /\ LET r == plot_price_distribution(view.filtered_df)
       IN  /\ view' = [view EXCEPT !.price = r,
                          !.shown = @ \cup Messages("price", r)
                                      \cup IF r.fig THEN {<<"chart", "price">>, <<"stats", "price">>}
                                           ELSE {}]
           /\ pc' = IF r.fig THEN "tab1" ELSE "failed"
           /\ err' = IF r.fig THEN err ELSE "TypeError"
    /\ UNCHANGED <<df, out, notices, again, arg, res>>

(* main, lines 777-806: the scatter plot and the band of its coefficient *)
Tab2 ==
    /\ pc = "tab1"
    /\ LET r == plot_rating_price_correlation(view.filtered_df)
       IN  view' = [view EXCEPT !.corr = r,
                       !.shown = @ \cup Messages("corr", r)
                                   \cup IF r.fig THEN {<<"chart", "corr">>, <<"band", band(r.corr)>>}
                                        ELSE {}]
    /\ pc' = "tab2"
    /\ UNCHANGED <<df, out, notices, err, again, arg, res>>

(* a tab3 that ranks the tags of the set before the filter *)
Tab3_unfiltered ==
    /\ pc = "tab2"
    /\ LET r == plot_tags_bar(out)
       IN  view' = [view EXCEPT !.tags = r,
                       !.shown = @ \cup Messages("tags", r)
                                   \cup IF r.fig THEN {<<"chart", "tags">>, <<"stats", "tags">>}
                                        ELSE {}]
    /\ pc' = "tab3"
    /\ UNCHANGED <<df, out, notices, err, again, arg, res>>

(* main, lines 809-826: the bar chart of the tags and their counts *)
Tab3 ==
    /\ pc = "tab2"
    /\ LET r == plot_tags_bar(view.filtered_df)
       IN  view' = [view EXCEPT !.tags = r,
                       !.shown = @ \cup Messages("tags", r)
                                   \cup IF r.fig THEN {<<"chart", "tags">>, <<"stats", "tags">>}
                                        ELSE {}]
    /\ pc' = "tab3"
    /\ UNCHANGED <<df, out, notices, err, again, arg, res>>

(* main, lines 829-833: the word cloud *)
Tab4 ==
    /\ pc = "tab3"
    /\ \E drawn \in BOOLEAN :
          LET r == plot_tags_wordcloud(view.filtered_df, drawn)
          IN  view' = [view EXCEPT !.cloud = r,
                          !.shown = @ \cup Messages("cloud", r)
                                      \cup IF r.fig THEN {<<"chart", "cloud">>} ELSE {}]
    /\ pc' = "tab4"
    /\ UNCHANGED <<df, out, notices, err, again, arg, res>>

(* main, lines 836-852: the high-value games, with the mean_price of tab1; *)
(* the table needs the name column (KeyError without it)                   *)
Tab5 ==
    /\ pc = "tab4"
    /\ \E r \in find_high_value_games(view.filtered_df, view.price.price_stats.mean) :
          /\ view' = [view EXCEPT !.high = r,
                         !.shown = @ \cup Messages("high", r)
                                     \cup IF r.fig
                                          THEN {<<"chart", "high">>}
                                               \cup IF InColumns(view.filtered_df, COL_NAME)
                                                    THEN {<<"table", "high">>} ELSE {}
                                          ELSE {}]
          /\ pc' = IF r.fig /\ ~InColumns(view.filtered_df, COL_NAME) THEN "failed" ELSE "tab5"
          /\ err' = IF r.fig /\ ~InColumns(view.filtered_df, COL_NAME) THEN "KeyError" ELSE err
    /\ UNCHANGED <<df, out, notices, again, arg, res>>

NextView ==
    LoadGames \/ ReadFail \/ Clean \/ Filter \/ Tab1 \/ Tab2 \/ Tab3 \/ Tab4 \/ Tab5

SpecView == Init /\ [][NextView]_vars

-----------------------------------------------------------------------------
(* The analytics applied to a given coefficient or filtered set: the       *)
(* classification of tab2, find_high_value_games and plot_tags_bar         *)

MaxDen == 10
MaxRecords == 3
MaxTags == 22

(* the coefficients p / q of [-1, 1] with q <= MaxDen *)
Coef(p, q) == [nan |-> FALSE, cov |-> p, vv |-> q * q]
Coefs == {Coef(pq[1], pq[2]) : pq \in {x \in (0 - MaxDen..MaxDen) \X (1..MaxDen) :
                                           0 - x[2] <= x[1] /\ x[1] <= x[2]}}

(* filtered sets of records (price, rating) *)
Records ==
    {<<Num(1000), Num(9000)>>, <<Num(6000), Num(8600)>>, <<Num(500), Num(8000)>>,
     <<Num(0), Num(9000)>>, <<Num(1000), NaN>>, <<Num(500), Num(9000)>>,
     <<Num(6000), Num(9000)>>, <<Num(500), Num(8600)>>}
RecordFrames ==
    UNION {{[cols |-> <<COL_PRICE, COL_RATING>>,
             data |-> <<[i \in 1..n |-> rows[i][1]], [i \in 1..n |-> rows[i][2]]>>, n |-> n] :
               rows \in [1..n -> Records]} :
           n \in 0..MaxRecords}
MeanPrices == {NoMean, Quot(1000, 1)}

(* filtered sets of two records with their tag lists: the first has k      *)
(* different tags, the second repeats some of them                         *)
Tag(i) == <<"t">> \o DecStr(i)
TagLists(k) ==
    IF k = 0 THEN {<<>>, <<<<>>>>, <<Tag(1), <<>>, Tag(1)>>}
    ELSE {<<>>, <<Tag(k), Tag(k - 1)>>, <<<<>>, Tag(1), Tag(1)>>, <<Tag(k + 1), Tag(2), Tag(k + 1)>>}
TagFrames ==
    UNION {{[cols |-> <<COL_TAGS>>,
             data |-> <<<<Lst([i \in 1..k |-> Tag(i)]), Lst(l)>>>>, n |-> 2] : l \in TagLists(k)} :
           k \in 0..MaxTags}

InitStat ==
    /\ pc = "input"
    /\ df = NoFrame
    /\ out = NoFrame
    /\ notices = <<>>
    /\ err = "none"
    /\ again = NoResult
    /\ res = NoValue
    /\ \/ /\ arg = NaN
          /\ \E c \in Coefs :
                view = [NoView EXCEPT !.corr = [fig |-> TRUE, warned |-> FALSE, corr |-> c]]
       \/ /\ arg \in MeanPrices
          /\ \E d \in RecordFrames : view = [NoView EXCEPT !.filtered_df = d]
       \/ /\ arg = NaN
          /\ \E d \in TagFrames : view = [NoView EXCEPT !.filtered_df = d]

(* main, lines 783-806: the band of the coefficient corr *)
Classify ==
    /\ pc = "input"
    /\ view.corr.fig
    /\ view' = [view EXCEPT !.shown = @ \cup {<<"band", band(view.corr.corr)>>}]
    /\ pc' = "classified"
    /\ UNCHANGED <<df, out, notices, err, again, arg, res>>

(* find_high_value_games(filtered_df, mean_price) *)
HighValue ==
    /\ pc = "input"
    /\ InColumns(view.filtered_df, COL_PRICE)
    /\ \E r \in find_high_value_games(view.filtered_df, arg) :
          view' = [view EXCEPT !.high = r, !.shown = @ \cup Messages("high", r)]
    /\ pc' = "selected"
    /\ UNCHANGED <<df, out, notices, err, again, arg, res>>

(* plot_tags_bar(filtered_df) *)
TagRank ==
    /\ pc = "input"
    /\ InColumns(view.filtered_df, COL_TAGS)
    /\ ~InColumns(view.filtered_df, COL_PRICE)
    /\ LET r == plot_tags_bar(view.filtered_df)
       IN  view' = [view EXCEPT !.tags = r, !.shown = @ \cup Messages("tags", r)]
    /\ pc' = "ranked"
    /\ UNCHANGED <<df, out, notices, err, again, arg, res>>

NextStat == Classify \/ HighValue \/ TagRank

SpecStat == InitStat /\ [][NextStat]_vars

-----------------------------------------------------------------------------
(* Properties of clean_data *)

Returned == pc = "cleaned"
Ended == pc \in {"cleaned", "raised"}

Rows == 1..df.n
Raw(c) == Col(df, c)
Canon(c) == Col(out, c)
HasRaw(c) == InColumns(df, c)

(* the cells of row i of the uploaded record set *)
RowCells(i) == {df.data[c][i] : c \in 1..Len(df.cols)}

(* a rating or date that is not unknown, a tag list that is not empty *)
IsKnown(v) == v.k # "nan" /\ v # Lst(<<>>)

parse_tags(v) == clean_tags(v, FALSE)

(* what row i of column name of the result may hold when it is made from   *)
(* row i of the record set alone                                           *)
DerivedFrom(name, i) ==
    CASE name = COL_PRICE -> {clean_price(v) : v \in RowCells(i)} \cup {Num(0)}
      [] name = COL_RATING -> {clean_rating(v) : v \in RowCells(i)} \cup {NaN} \cup RowCells(i)
      [] name = COL_TAGS -> {parse_tags(v) : v \in RowCells(i)} \cup {Lst(<<>>)} \cup RowCells(i)
      [] name = COL_DATE -> {clean_date(v) : v \in RowCells(i)} \cup {NaN} \cup RowCells(i)
      [] name = COL_YEAR -> {year(Canon(COL_DATE)[i])}
      [] name \in {COL_ORIGINAL, COL_DISCOUNT} -> {clean_price(Raw(name)[i])}
      [] OTHER -> {Raw(name)[i]}

(* C1: whenever clean_data returns, its result has as many rows as the     *)
(* record set, keeps the record set's columns in their order, and every    *)
(* cell of row i is made from row i of the record set.                     *)
C1_RowsAligned ==
    Returned =>
        /\ out.n = df.n
        /\ \A c \in 1..Len(df.cols) : out.cols[c] = df.cols[c]
        /\ \A c \in 1..Len(out.cols) :
              /\ Len(out.data[c]) = df.n
              /\ \A i \in Rows : out.data[c][i] \in DerivedFrom(out.cols[c], i)

(* two rows, the first dated by the detailed column and the second by the  *)
(* basic one                                                               *)
C1_Witness ==
    /\ Returned
    /\ df.n = 2
    /\ HasRaw(COL_DATE_DETAILED) /\ HasRaw(COL_DATE_BASIC)
    /\ Canon(COL_DATE) = <<Date(2021, 3, 15), Date(2019, 1, 1)>>
    /\ Canon(COL_YEAR) = <<Num(202100), Num(201900)>>

(* the canonical column of a field is typed *)
TypedColumn(c, kinds) == InColumns(out, c) /\ \A i \in Rows : Canon(c)[i].k \in kinds

(* C2: clean_data never raises, and in its result price is a number,       *)
(* rating a number or unknown, tags a list, release time a date or         *)
(* unknown, whatever the columns of the record set.                        *)
C2_NeverRaisesAlwaysTyped ==
    /\ pc # "raised"
    /\ Returned =>
          /\ TypedColumn(COL_PRICE, {"num"})
          /\ TypedColumn(COL_RATING, {"num", "nan"})
          /\ TypedColumn(COL_TAGS, {"list"})
          /\ TypedColumn(COL_DATE, {"date", "nan"})
          /\ TypedColumn(COL_YEAR, {"num", "nan"})

(* the record set has no named and no synonym column for the field *)
NoPriceSource ==
    ~HasRaw(COL_ORIGINAL) /\ ~HasRaw(COL_DISCOUNT)
    /\ \A c \in 1..Len(df.cols) : df.cols[c] \notin {COL_PRICE, COL_PRICE_EN}
NoRatingSource ==
    ~HasRaw(COL_RATING_DETAILED) /\ ~HasRaw(COL_RATING_BASIC)
    /\ \A c \in 1..Len(df.cols) : df.cols[c] \notin {COL_RATING, COL_RATING_EN}
NoTagSource ==
    ~HasRaw(COL_TAGS_DETAILED) /\ ~HasRaw(COL_TAGS_BASIC)
    /\ \A c \in 1..Len(df.cols) : df.cols[c] \notin {COL_TAGS, COL_TAGS_EN}
NoDateSource ==
    ~HasRaw(COL_DATE_DETAILED) /\ ~HasRaw(COL_DATE_BASIC)
    /\ \A c \in 1..Len(df.cols) : df.cols[c] \notin {COL_DATE, COL_DATE_EN}

AllRows(c, v) == InColumns(out, c) /\ \A i \in Rows : Canon(c)[i] = v

(* C3: when a field has no source column clean_data still returns, with    *)
(* the field's default in every row.                                       *)
C3_ResolutionFailureNonFatal ==
    Ended =>
        /\ NoPriceSource => Returned /\ AllRows(COL_PRICE, Num(0))
        /\ NoRatingSource => Returned /\ AllRows(COL_RATING, NaN)
        /\ NoTagSource => Returned /\ AllRows(COL_TAGS, Lst(<<>>))
        /\ NoDateSource => Returned /\ AllRows(COL_DATE, NaN) /\ AllRows(COL_YEAR, NaN)

(* C4: an empty record set gives an empty result and no error. *)
C4_EmptyInEmptyOut ==
    (Ended /\ df.n = 0) => (Returned /\ out.n = 0)

(* C5: where the detailed cell of a row converts to a known value, that    *)
(* value is the canonical one, whatever the other columns.                 *)
C5_DetailedHasPriority ==
    Returned =>
        /\ HasRaw(COL_RATING_DETAILED) =>
              \A i \in Rows : IsKnown(clean_rating(Raw(COL_RATING_DETAILED)[i])) =>
                                 Canon(COL_RATING)[i] = clean_rating(Raw(COL_RATING_DETAILED)[i])
        /\ HasRaw(COL_TAGS_DETAILED) =>
              \A i \in Rows : IsKnown(parse_tags(Raw(COL_TAGS_DETAILED)[i])) =>
                                 Canon(COL_TAGS)[i] = parse_tags(Raw(COL_TAGS_DETAILED)[i])
        /\ HasRaw(COL_DATE_DETAILED) =>
              \A i \in Rows : IsKnown(clean_date(Raw(COL_DATE_DETAILED)[i])) =>
                                 Canon(COL_DATE)[i] = clean_date(Raw(COL_DATE_DETAILED)[i])

(* the detailed value of a row when it is known, the basic one otherwise *)
Fallback(det, bas) == IF IsKnown(det) THEN det ELSE bas

(* C6: with the detailed and the basic column both present, each row takes *)
(* its detailed value when that is known and its own basic value when not. *)
C6_RowWiseFallback ==
    Returned =>
        /\ (HasRaw(COL_RATING_DETAILED) /\ HasRaw(COL_RATING_BASIC)) =>
              \A i \in Rows :
                  Canon(COL_RATING)[i] = Fallback(clean_rating(Raw(COL_RATING_DETAILED)[i]),
                                                  clean_rating(Raw(COL_RATING_BASIC)[i]))
        /\ (HasRaw(COL_TAGS_DETAILED) /\ HasRaw(COL_TAGS_BASIC)) =>
              \A i \in Rows :
                  Canon(COL_TAGS)[i] = Fallback(parse_tags(Raw(COL_TAGS_DETAILED)[i]),
                                                parse_tags(Raw(COL_TAGS_BASIC)[i]))
        /\ (HasRaw(COL_DATE_DETAILED) /\ HasRaw(COL_DATE_BASIC)) =>
              \A i \in Rows :
                  Canon(COL_DATE)[i] = Fallback(clean_date(Raw(COL_DATE_DETAILED)[i]),
                                                clean_date(Raw(COL_DATE_BASIC)[i]))

(* two rows with both rating columns filled in: the first has a detailed   *)
(* rating and keeps it, the second has none and takes the basic one        *)
C6_Witness ==
    /\ Returned
    /\ df.n = 2
    /\ HasRaw(COL_RATING_DETAILED) /\ HasRaw(COL_RATING_BASIC)
    /\ Raw(COL_RATING_DETAILED) = <<Known(COL_RATING_DETAILED), Missing(COL_RATING_DETAILED)>>
    /\ Raw(COL_RATING_BASIC) = <<Known(COL_RATING_BASIC), Known(COL_RATING_BASIC)>>
    /\ Canon(COL_RATING) = <<Num(9200), Num(8000)>>

(* C7: with no detailed column and a basic one, every row takes its basic  *)
(* value, whatever the other columns.                                      *)
C7_BasicIsSoleSource ==
    Returned =>
        /\ (~HasRaw(COL_RATING_DETAILED) /\ HasRaw(COL_RATING_BASIC)) =>
              \A i \in Rows : Canon(COL_RATING)[i] = clean_rating(Raw(COL_RATING_BASIC)[i])
        /\ (~HasRaw(COL_TAGS_DETAILED) /\ HasRaw(COL_TAGS_BASIC)) =>
              \A i \in Rows : Canon(COL_TAGS)[i] = parse_tags(Raw(COL_TAGS_BASIC)[i])
        /\ (~HasRaw(COL_DATE_DETAILED) /\ HasRaw(COL_DATE_BASIC)) =>
              \A i \in Rows : Canon(COL_DATE)[i] = clean_date(Raw(COL_DATE_BASIC)[i])

(* the first column, in declaration order, whose name is one of names *)
FirstNamed(names) ==
    df.cols[SetMin({c \in 1..Len(df.cols) : df.cols[c] \in names})]

(* C8: with neither named column of a field, the source is the first       *)
(* column in declaration order whose name holds a synonym of the field,    *)
(* in any letter case: every row takes the value of its cell there.        *)
C8_FirstSynonymColumn ==
    Returned =>
        /\ (~HasRaw(COL_ORIGINAL) /\ ~HasRaw(COL_DISCOUNT) /\ ~NoPriceSource) =>
              Canon(COL_PRICE) = prices_of(Raw(FirstNamed({COL_PRICE, COL_PRICE_EN})))
        /\ (~HasRaw(COL_RATING_DETAILED) /\ ~HasRaw(COL_RATING_BASIC) /\ ~NoRatingSource) =>
              Canon(COL_RATING) = ratings_of(Raw(FirstNamed({COL_RATING, COL_RATING_EN})))
        /\ (~HasRaw(COL_TAGS_DETAILED) /\ ~HasRaw(COL_TAGS_BASIC) /\ ~NoTagSource) =>
              Canon(COL_TAGS) = tags_of(Raw(FirstNamed({COL_TAGS, COL_TAGS_EN})), FALSE)
        /\ (~HasRaw(COL_DATE_DETAILED) /\ ~HasRaw(COL_DATE_BASIC) /\ ~NoDateSource) =>
              Canon(COL_DATE) = dates_of(Raw(FirstNamed({COL_DATE, COL_DATE_EN})))

(* the English price column declared before the Chinese one: the price is  *)
(* the English column's, not the other's                                   *)
C8_Witness ==
    /\ Returned
    /\ df.n >= 1
    /\ Len(df.cols) >= 2 /\ df.cols[1] = COL_PRICE_EN /\ df.cols[2] = COL_PRICE
    /\ Raw(COL_PRICE_EN)[1] = Known(COL_PRICE_EN)
    /\ Raw(COL_PRICE)[1] = Known(COL_PRICE)
    /\ Canon(COL_PRICE)[1] = Num(950)

Warned(field) == \E k \in 1..Len(notices) : notices[k] = field
WarnedOnce(field) == Cardinality({k \in 1..Len(notices) : notices[k] = field}) <= 1

(* C9: a field's notice is emitted if and only if the record set has no    *)
(* source column for the field, and at most once.                          *)
C9_NoticeIffNoSource ==
    Ended =>
        /\ Warned("price") <=> NoPriceSource
        /\ Warned("rating") <=> NoRatingSource
        /\ Warned("tags") <=> NoTagSource
        /\ Warned("date") <=> NoDateSource
        /\ \A f \in {"price", "rating", "tags", "date"} : WarnedOnce(f)

(* C10: clean_data applied to its own result returns, and leaves price,    *)
(* rating, tag list, release time and release year of every row unchanged. *)
C10_Idempotent ==
    pc = "recleaned" =>
        /\ again.e = "none"
        /\ \A c \in {COL_PRICE, COL_RATING, COL_TAGS, COL_DATE, COL_YEAR} :
              InColumns(again.d, c) /\ Col(again.d, c) = Canon(c)

-----------------------------------------------------------------------------
(* Properties of the cell converters *)

Parsed(f) == pc = "parsed" /\ res.f = f

IsText(v) == v.k = "str"
HasMarker(v) == IsText(v) /\ (Contains(FREE, v.s) \/ Contains(UNKNOWN, v.s))
IsMarker(v) == v = Str(FREE) \/ v = Str(UNKNOWN)

(* t is digits, an optional single point, digits: it starts with a digit   *)
IsDecimal(t) ==
    /\ t # <<>>
    /\ IsDigit(t[1])
    /\ \A i \in 1..Len(t) : IsDigit(t[i]) \/ t[i] = "."
    /\ Cardinality({i \in 1..Len(t) : t[i] = "."}) <= 1

(* the substrings s[i..j] of s that are decimal numbers *)
Decimals(s) == {ij \in (1..Len(s)) \X (1..Len(s)) : ij[1] <= ij[2] /\ IsDecimal(SubSeq(s, ij[1], ij[2]))}

(* the first one, taken as long as it can be *)
FirstDecimal(s) ==
    LET i == SetMin({ij[1] : ij \in Decimals(s)})
        j == SetMax({ij[2] : ij \in {x \in Decimals(s) : x[1] = i}})
    IN  SubSeq(s, i, j)

(* the number a decimal text denotes, in hundredths *)
DecimalValue(t) ==
    LET points == {i \in 1..Len(t) : t[i] = "."}
        pt == IF points = {} THEN Len(t) + 1 ELSE SetMin(points)
    IN  FloatOf(SubSeq(t, 1, pt - 1), SubSeq(t, pt + 1, Len(t)))

NumberIn(s) == IF Decimals(s) = {} THEN Num(0) ELSE Num(DecimalValue(FirstDecimal(s)))

(* C11, as stated: clean_price gives 0.0 for a missing value and for every *)
(* text that contains the free marker or the unknown marker.               *)
C11_MarkerInsideIsZero ==
    (Parsed("price") /\ (isna(arg) \/ HasMarker(arg))) => res.v = Num(0)

(* C11, amended: clean_price gives 0.0 for a missing value and for a value *)
(* equal to the free marker or to the unknown marker; a text that only     *)
(* contains a marker is converted like any other text, to the first        *)
(* number in it.                                                           *)
C11_MarkerAloneIsZero ==
    Parsed("price") =>
        /\ (isna(arg) \/ IsMarker(arg)) => res.v = Num(0)
        /\ (HasMarker(arg) /\ ~IsMarker(arg)) => res.v = NumberIn(arg.s)

(* "free (CNY68)" is converted to 68.0, the unknown marker to 0.0 *)
C11_Witness ==
    /\ Parsed("price")
    /\ arg = Str(<<"mian", "fei", " ", "(", "CNY", "6", "8", ")">>)
    /\ res.v = Num(6800)

(* C12: for every other value clean_price gives the number denoted by the  *)
(* first, longest substring of str(value) that is digits with an optional  *)
(* single point, and 0.0 when there is none; the price of every row of a   *)
(* result of clean_data is a number that is not negative.                  *)
C12_FirstDecimalNumber ==
    /\ (Parsed("price") /\ ~isna(arg) /\ ~IsMarker(arg)) => res.v = NumberIn(StrOf(arg))
    /\ Returned => /\ TypedColumn(COL_PRICE, {"num"})
                   /\ \A i \in Rows : Canon(COL_PRICE)[i].n >= 0

(* "CNY49.99" is converted to 49.99 *)
C12_Witness ==
    /\ Parsed("price")
    /\ arg = Str(<<"CNY", "4", "9", ".", "9", "9">>)
    /\ res.v = Num(4999)

(* the whole runs of digits of s that a "%" follows at once *)
PercentInts(s) ==
    {ij \in (1..Len(s)) \X (1..Len(s)) :
        /\ ij[1] <= ij[2] /\ ij[2] < Len(s)
        /\ AllDigits(SubSeq(s, ij[1], ij[2]))
        /\ s[ij[2] + 1] = "%"
        /\ (ij[1] = 1 \/ ~IsDigit(s[ij[1] - 1]))}

FirstPercentInt(s) ==
    LET ij == CHOOSE x \in PercentInts(s) : \A y \in PercentInts(s) : x[1] <= y[1]
    IN  DecVal(SubSeq(s, ij[1], ij[2]))

(* C13: clean_rating gives unknown for a missing value and the unknown     *)
(* marker; for a text with a "%", the integer that stands right before     *)
(* the "%" ("92%" -> 92.0); for a number, the same number; unknown for     *)
(* every other value: digits without a "%", a "%" with no digit before it. *)
C13_RatingConversion ==
    Parsed("rating") =>
        res.v = IF isna(arg) \/ arg = Str(UNKNOWN) THEN NaN
                ELSE IF IsText(arg) /\ PercentInts(arg.s) # {}
                     THEN Num(FirstPercentInt(arg.s) * 100)
                ELSE IF arg.k = "num" THEN Num(arg.n)
                ELSE NaN

(* "92%" is converted to 92.0 *)
C13_Witness ==
    /\ Parsed("rating")
    /\ arg = Str(<<"9", "2", "%">>)
    /\ res.v = Num(9200)

(* C14: in every record of a result of clean_data the rating is unknown or *)
(* a number from 0 to 100.                                                 *)
C14_RatingInRange ==
    Returned =>
        /\ InColumns(out, COL_RATING)
        /\ \A i \in Rows :
              \/ isna(Canon(COL_RATING)[i])
              \/ /\ Canon(COL_RATING)[i].k = "num"
                 /\ Canon(COL_RATING)[i].n >= 0
                 /\ Canon(COL_RATING)[i].n <= 10000

(* the pieces of a tag text between commas, trimmed, without the empty ones *)
NonEmptyTags(s) ==
    SelectSeq([i \in 1..Len(split(RemoveChars(s, {"[", "]", "'", "\""}))) |->
                  strip(split(RemoveChars(s, {"[", "]", "'", "\""}))[i])],
              LAMBDA x : x # <<>>)

(* C15: clean_tags of a text strips brackets and quotes, splits on commas, *)
(* trims the pieces and drops the empty ones; a missing value, the unknown *)
(* marker, "[]" and a value that is not a text give the empty list; so no  *)
(* tag list of a result of clean_data holds an empty tag.                  *)
C15_TagsWithoutEmptyPieces ==
    /\ Parsed("tags") =>
          res.v = IF IsText(arg) /\ arg # Str(UNKNOWN) THEN Lst(NonEmptyTags(arg.s))
                  ELSE Lst(<<>>)
    /\ Returned =>
          /\ TypedColumn(COL_TAGS, {"list"})
          /\ \A i \in Rows : \A k \in 1..Len(Canon(COL_TAGS)[i].l) : Canon(COL_TAGS)[i].l[k] # <<>>

(* t is four digits, "-", one or two digits, "-", one or two digits *)
IsYMD(t) ==
    \E a \in 1..2, b \in 1..2 :
        /\ Len(t) = 6 + a + b
        /\ AllDigits(SubSeq(t, 1, 4)) /\ t[5] = "-"
        /\ AllDigits(SubSeq(t, 6, 5 + a)) /\ t[6 + a] = "-"
        /\ AllDigits(SubSeq(t, 7 + a, 6 + a + b))

(* the calendar date a year-month-day text names, unknown when there is    *)
(* no such date                                                            *)
DateOfYMD(t) ==
    LET a == CHOOSE a \in 1..2 : t[6 + a] = "-"
    IN  to_datetime(DecVal(SubSeq(t, 1, 4)), DecVal(SubSeq(t, 6, 5 + a)),
                    DecVal(SubSeq(t, 7 + a, Len(t))))

FourDigitRuns(s) == {i \in 1..(Len(s) - 3) : AllDigits(SubSeq(s, i, i + 3))}
FirstYear(s) == DecVal(SubSeq(s, SetMin(FourDigitRuns(s)), SetMin(FourDigitRuns(s)) + 3))

(* the years a Timestamp holds on every pandas release *)
YearHeld(y) == y >= 1678 /\ y <= 2261

DateAsDocumented(v, s, r) ==
    IF isna(v) \/ v = Str(UNKNOWN) THEN r = NaN
    ELSE IF v.k = "date" THEN r = v
    ELSE IF IsYMD(s) THEN r = DateOfYMD(s)
    ELSE IF \E n \in 1..Len(s) : IsYMD(SubSeq(s, 1, n)) THEN r = NaN \/ r.k = "date"
    ELSE IF FourDigitRuns(s) = {} THEN r = NaN
    ELSE IF YearHeld(FirstYear(s)) THEN r = Date(FirstYear(s), 1, 1)
    ELSE r = NaN \/ (r.k = "date" /\ YearOf(r) = FirstYear(s))

(* C16: clean_date gives unknown for a missing value and the unknown       *)
(* marker, the calendar date for a year-month-day text, a date in the year *)
(* of the first run of four digits for another text that has one, unknown  *)
(* otherwise and for every text that fails to parse, and never raises.     *)
(* The release year of a record is the year of its release time when that  *)
(* is known and unknown when it is not.                                    *)
C16_DateConversionAndYear ==
    /\ Parsed("date") => DateAsDocumented(arg, StrOf(arg), res.v)
    /\ (Ended /\ HasRaw(COL_DATE_BASIC)) =>
          /\ Returned
          /\ \A i \in Rows :
                /\ Canon(COL_DATE)[i] = clean_date(Raw(COL_DATE_BASIC)[i])
                /\ Canon(COL_YEAR)[i] = IF isna(Canon(COL_DATE)[i]) THEN NaN
                                        ELSE Num(YearOf(Canon(COL_DATE)[i]) * 100)

(* the conversion alone *)
C16_DateConversion == Parsed("date") => DateAsDocumented(arg, StrOf(arg), res.v)

-----------------------------------------------------------------------------
(* Properties of the filter and of the analytics *)

Tab1Ran == pc \in {"tab1", "tab2", "tab3", "tab4", "tab5"} \/ (pc = "failed" /\ err = "TypeError")
Tab2Ran == pc \in {"tab2", "tab3", "tab4", "tab5"}
Filtered == pc = "filtered" \/ Tab1Ran

(* the record at position i of the canonical set passes the ranges *)
Passes(i) ==
    /\ Canon(COL_PRICE)[i].k = "num"
    /\ view.price_range[1] <= Canon(COL_PRICE)[i].n
    /\ Canon(COL_PRICE)[i].n <= view.price_range[2]
    /\ Canon(COL_RATING)[i].k = "num"
    /\ view.rating_range[1] <= Canon(COL_RATING)[i].n
    /\ Canon(COL_RATING)[i].n <= view.rating_range[2]

(* C17: the filtered set is exactly the records whose price lies in the    *)
(* price range and whose rating is known and lies in the rating range,     *)
(* both ends included, in their order; no record with an unknown rating is *)
(* in it; no step from the filter on changes the canonical set that        *)
(* clean_data returned.                                                    *)
C17_FilterExact ==
    /\ [](Filtered =>
            /\ \A k, l \in 1..Len(view.index) : k < l => view.index[k] < view.index[l]
            /\ {view.index[k] : k \in 1..Len(view.index)} = {i \in 1..out.n : Passes(i)}
            /\ view.filtered_df.cols = out.cols
            /\ view.filtered_df.n = Len(view.index)
            /\ \A c \in 1..Len(out.cols) : \A k \in 1..Len(view.index) :
                  view.filtered_df.data[c][k] = out.data[c][view.index[k]]
            /\ \A k \in 1..view.filtered_df.n : ~isna(Col(view.filtered_df, COL_RATING)[k]))
    /\ [][pc = "cleaned" \/ Filtered => out' = out /\ df' = df]_vars

(* three games, the second without a rating, the third above the price     *)
(* range whose upper end is the price of the first: the first alone stays  *)
C17_Witness ==
    /\ pc = "filtered"
    /\ out.n = 3
    /\ isna(Canon(COL_RATING)[2])
    /\ Canon(COL_PRICE)[1].n = view.price_range[2]
    /\ Canon(COL_RATING)[1].n = view.rating_range[1]
    /\ Canon(COL_PRICE)[3].n > view.price_range[2]
    /\ view.index = <<1>>

(* C18: when an analytic has no valid rows the run does not fail and draws *)
(* no empty chart: the function gives its no-data result and a message,    *)
(* the caller skips the chart, and the later analytics are still run.      *)
C18_NoDataIsNotFatal ==
    /\ pc # "failed"
    /\ Tab1Ran => (valid_prices(view.filtered_df) = <<>> =>
                      /\ ~view.price.fig /\ view.price.warned
                      /\ <<"chart", "price">> \notin view.shown)
    /\ Tab2Ran => (valid_data(view.filtered_df) = <<>> =>
                      /\ ~view.corr.fig /\ view.corr.warned
                      /\ <<"chart", "corr">> \notin view.shown)

(* the rows of the filtered set with a price above zero *)
Priced == {k \in 1..view.filtered_df.n :
              Col(view.filtered_df, COL_PRICE)[k].k = "num" /\ Col(view.filtered_df, COL_PRICE)[k].n > 0}
PriceAt(k) == Col(view.filtered_df, COL_PRICE)[k].n

RECURSIVE TotalPrice(_)
TotalPrice(rows) ==
    IF rows = {} THEN 0
    ELSE LET k == CHOOSE k \in rows : TRUE IN PriceAt(k) + TotalPrice(rows \ {k})

(* C19: plot_price_distribution gives no data exactly when no record has a *)
(* price above zero; otherwise its statistics are those of exactly the     *)
(* records with a price above zero, so the minimum is above zero and the   *)
(* median and the mean lie between the minimum and the maximum.            *)
C19_PriceStatistics ==
    Tab1Ran =>
        /\ ~view.price.fig <=> Priced = {}
        /\ view.price.fig =>
              LET s == view.price.price_stats
              IN  /\ s.count = Cardinality(Priced)
                  /\ s.min \in {PriceAt(k) : k \in Priced}
                  /\ s.max \in {PriceAt(k) : k \in Priced}
                  /\ \A k \in Priced : s.min <= PriceAt(k) /\ PriceAt(k) <= s.max
                  /\ s.mean = Quot(TotalPrice(Priced), Cardinality(Priced))
                  /\ 2 * Cardinality({k \in Priced : LeqQuot(PriceAt(k), s.median)}) >= s.count
                  /\ 2 * Cardinality({k \in Priced : GeqQuot(PriceAt(k), s.median)}) >= s.count
                  /\ s.min > 0
                  /\ LeqQuot(s.min, s.median) /\ GeqQuot(s.max, s.median)
                  /\ LeqQuot(s.min, s.mean) /\ GeqQuot(s.max, s.mean)

(* a free game and two games of different prices in the filtered set: the  *)
(* statistics are those of the two                                         *)
C19_Witness ==
    /\ pc = "tab1"
    /\ view.filtered_df.n = 3
    /\ \E k \in 1..3 : Col(view.filtered_df, COL_PRICE)[k].n = 0
    /\ view.price.price_stats.count = 2
    /\ view.price.price_stats.min = 1000
    /\ view.price.price_stats.max = 3000
    /\ view.price.price_stats.mean = Quot(4000, 2)

(* the rows of the filtered set with a known rating and a price above zero *)
Eligible ==
    {k \in Priced : Col(view.filtered_df, COL_RATING)[k].k = "num"}

BandShown == \E x \in view.shown : x[1] = "band"

(* C20: with fewer than two records of known rating and price above zero   *)
(* the correlation gives no data: no coefficient is reported and no band   *)
(* is shown; a coefficient is computed and classified only with two or     *)
(* more such records.                                                      *)
C20_CorrelationNeedsTwo ==
    Tab2Ran =>
        /\ Cardinality(Eligible) < 2 => (~view.corr.fig /\ ~BandShown)
        /\ BandShown => Cardinality(Eligible) >= 2

-----------------------------------------------------------------------------
(* Properties of the classification, of the high-value games and of the    *)
(* tag ranking                                                             *)

Classified == pc = "classified"
BandIs(b) == <<"band", b>> \in view.shown
OneBand == Cardinality({x \in view.shown : x[1] = "band"}) = 1

(* the coefficient that was classified is P / Q with Q > 0 *)
P == view.corr.corr.cov
Q == CHOOSE q \in 1..view.corr.corr.vv : q * q = view.corr.corr.vv

(* C21, as stated: every coefficient of [-1, 1] is in exactly one of the   *)
(* six bands, and each of 0.5, 0.3, -0.3, -0.5 is in the band of lower     *)
(* magnitude: -0.3 is weak negative and -0.5 is moderate negative.         *)
C21_BandsMirrored ==
    Classified =>
        /\ OneBand
        /\ BandIs("strong positive") <=> 2 * P > Q
        /\ BandIs("moderate positive") <=> (10 * P > 3 * Q /\ 2 * P <= Q)
        /\ BandIs("weak positive") <=> (P > 0 /\ 10 * P <= 3 * Q)
        /\ BandIs("weak negative") <=> (P <= 0 /\ 10 * P >= 0 - 3 * Q)
        /\ BandIs("moderate negative") <=> (10 * P < 0 - 3 * Q /\ 2 * P >= 0 - Q)
        /\ BandIs("strong negative") <=> 2 * P < 0 - Q

(* C21, amended: every coefficient of [-1, 1] is in exactly one of the six *)
(* bands, and each boundary is in the band below it: 0.5 is moderate       *)
(* positive, 0.3 weak positive, 0 weak negative, -0.3 moderate negative    *)
(* and -0.5 strong negative.                                               *)
C21_BoundaryInBandBelow ==
    Classified =>
        /\ OneBand
        /\ BandIs("strong positive") <=> 2 * P > Q
        /\ BandIs("moderate positive") <=> (10 * P > 3 * Q /\ 2 * P <= Q)
        /\ BandIs("weak positive") <=> (P > 0 /\ 10 * P <= 3 * Q)
        /\ BandIs("weak negative") <=> (P <= 0 /\ 10 * P > 0 - 3 * Q)
        /\ BandIs("moderate negative") <=> (10 * P <= 0 - 3 * Q /\ 2 * P > 0 - Q)
        /\ BandIs("strong negative") <=> 2 * P <= 0 - Q

(* the coefficient -0.3 was classified: moderate negative *)
C21_Witness == Classified /\ 10 * P = 0 - 3 * Q /\ BandIs("moderate negative")

(* C22: a coefficient of exactly 0.30 is weak positive, not moderate       *)
(* positive, and a coefficient of exactly -0.50 is strong negative.        *)
C22_BoundaryCases ==
    Classified =>
        /\ 10 * P = 3 * Q => (BandIs("weak positive") /\ ~BandIs("moderate positive"))
        /\ 2 * P = 0 - Q => BandIs("strong negative")

(* the coefficient 0.30 was classified: weak positive *)
C22_Witness == Classified /\ 10 * P = 3 * Q /\ BandIs("weak positive")

Selected == pc = "selected"
RatingAt(k) == Col(view.filtered_df, COL_RATING)[k].n

(* the threshold of the price: the mean_price that was given, or the mean  *)
(* of the prices of the eligible records                                   *)
Threshold ==
    IF arg = NoMean THEN Quot(TotalPrice(Eligible), Cardinality(Eligible)) ELSE arg

HighRows == {view.high.high_value_games[a] : a \in 1..Len(view.high.high_value_games)}

(* C23: find_high_value_games gives no data exactly when no record has a   *)
(* known rating and a price above zero; otherwise its result holds, once   *)
(* each, exactly the eligible records with rating >= 85 and price <= the   *)
(* mean_price given, or the mean price of the eligible records when none   *)
(* is given.                                                               *)
C23_HighValueMembership ==
    Selected =>
        /\ ~view.high.fig <=> Eligible = {}
        /\ view.high.fig =>
              /\ HighRows = {k \in Eligible : RatingAt(k) >= 8500 /\ LeqQuot(PriceAt(k), Threshold)}
              /\ Cardinality(HighRows) = Len(view.high.high_value_games)

(* the records (10, 90), (60, 86), (5, 80) without a mean_price: the mean  *)
(* is 25 and the first record alone is returned                            *)
C23_Witness ==
    /\ Selected
    /\ arg = NoMean
    /\ view.filtered_df.data = <<<<Num(1000), Num(6000), Num(500)>>, <<Num(9000), Num(8600), Num(8000)>>>>
    /\ Threshold = Quot(7500, 3)
    /\ view.high.high_value_games = <<1>>

(* C24: the high-value result is ordered by falling rating, and two        *)
(* records of one rating keep their original order (a stable sort).        *)
C24_StableByRating ==
    Selected =>
        \A a, b \in 1..Len(view.high.high_value_games) :
            a < b =>
                LET i == view.high.high_value_games[a]
                    j == view.high.high_value_games[b]
                IN  /\ RatingAt(i) >= RatingAt(j)
                    /\ RatingAt(i) = RatingAt(j) => i < j

Ranked == pc = "ranked"

(* the occurrences of the tags that are not empty: row and place in the row *)
Occurrences ==
    {o \in (1..view.filtered_df.n) \X (1..MaxTags + 3) :
        /\ o[2] <= Len(Col(view.filtered_df, COL_TAGS)[o[1]].l)
        /\ Col(view.filtered_df, COL_TAGS)[o[1]].l[o[2]] # <<>>}
TagAt(o) == Col(view.filtered_df, COL_TAGS)[o[1]].l[o[2]]
TagsSeen == {TagAt(o) : o \in Occurrences}
Times(x) == Cardinality({o \in Occurrences : TagAt(o) = x})
Before(o, u) == o[1] < u[1] \/ (o[1] = u[1] /\ o[2] < u[2])
SeenFirst(x, y) ==
    \E o \in Occurrences : TagAt(o) = x /\ \A u \in Occurrences : TagAt(u) = y => Before(o, u)

(* C25: the ranking counts every occurrence of every tag that is not empty *)
(* in the filtered set; it gives no data exactly when there is none;       *)
(* otherwise it gives at most 20 pairs of different tags with their        *)
(* counts, by falling count, tags of one count in the order in which they  *)
(* were first seen, and no tag left out has a larger count than one given. *)
C25_TagRanking ==
    Ranked =>
        /\ ~view.tags.fig <=> Occurrences = {}
        /\ view.tags.fig =>
              LET top == view.tags.top_tags
                  given == {top[a].tag : a \in 1..Len(top)}
              IN  /\ Len(top) <= 20
                  /\ Len(top) = 20 \/ given = TagsSeen
                  /\ given \subseteq TagsSeen
                  /\ Cardinality(given) = Len(top)
                  /\ \A a \in 1..Len(top) : top[a].count = Times(top[a].tag)
                  /\ \A a, b \in 1..Len(top) :
                        a < b => /\ top[a].count >= top[b].count
                                 /\ top[a].count = top[b].count => SeenFirst(top[a].tag, top[b].tag)
                  /\ \A x \in TagsSeen \ given : \A a \in 1..Len(top) : Times(x) <= top[a].count

(* more than 20 different tags, two of them seen twice: these two come     *)
(* first, in the order in which they were first seen, and 20 are given     *)
C25_Witness ==
    /\ Ranked
    /\ Cardinality(TagsSeen) > 20
    /\ Len(view.tags.top_tags) = 20
    /\ view.tags.top_tags[1].count = 2
    /\ view.tags.top_tags[2].count = 2
    /\ SeenFirst(view.tags.top_tags[1].tag, view.tags.top_tags[2].tag)
    /\ view.tags.top_tags[3].count = 1

-----------------------------------------------------------------------------
(* Properties of the run of main *)

Tab3Ran == pc \in {"tab3", "tab4", "tab5"} \/ (pc = "failed" /\ err = "KeyError")
Tab4Ran == pc \in {"tab4", "tab5"} \/ (pc = "failed" /\ err = "KeyError")
Tab5Ran == pc = "tab5" \/ (pc = "failed" /\ err = "KeyError")

(* C26: clean_data runs only on a record set that was read; the filter is  *)
(* applied to the set clean_data returned; each of the five analytics is   *)
(* computed on the filtered set; when reading fails the run stops: nothing *)
(* is normalized, filtered or analysed, and no further step is taken.      *)
C26_SessionOrder ==
    /\ [][pc' \in {"cleaned", "raised"} => pc = "loaded" /\ df # NoFrame /\ out = NoFrame]_vars
    /\ [][pc' = "filtered" => pc = "cleaned" /\ out' = out]_vars
    /\ [](Filtered => view.filtered_df = Take(out, view.index))
    /\ [](Tab1Ran => view.price = plot_price_distribution(view.filtered_df))
    /\ [](Tab2Ran => view.corr = plot_rating_price_correlation(view.filtered_df))
    /\ [](Tab3Ran => view.tags = plot_tags_bar(view.filtered_df))
    /\ [](Tab4Ran => \E drawn \in BOOLEAN : view.cloud = plot_tags_wordcloud(view.filtered_df, drawn))
    /\ [](Tab5Ran => view.high \in find_high_value_games(view.filtered_df, view.price.price_stats.mean))
    /\ [](pc = "stopped" => df = NoFrame /\ out = NoFrame /\ view = NoView)
    /\ [][pc # "stopped"]_vars

(* all five analytics were computed, on a filtered set that is smaller     *)
(* than the canonical set and has other tag counts                         *)
C26_Witness ==
    /\ pc = "tab5"
    /\ view.filtered_df.n < out.n
    /\ view.tags.fig
    /\ view.tags # plot_tags_bar(out)
    /\ view.high.fig

DefaultRanges ==
    /\ view.price_range = <<price_min, price_max>>
    /\ view.rating_range = <<rating_min, rating_max>>

(* C28: with the default ranges of the two sliders the filtered set is     *)
(* exactly the records with a known rating; with any ranges every record   *)
(* of the filtered set has a known rating.                                 *)
C28_DefaultDropsUnknown ==
    Filtered =>
        /\ DefaultRanges =>
              {view.index[k] : k \in 1..Len(view.index)} =
                  {i \in 1..out.n : ~isna(Canon(COL_RATING)[i])}
        /\ \A k \in 1..view.filtered_df.n : ~isna(Col(view.filtered_df, COL_RATING)[k])

(* the default ranges, a game without a rating that is dropped and a game  *)
(* with a rating that is kept                                              *)
C28_Witness ==
    /\ pc = "filtered"
    /\ DefaultRanges
    /\ \E i \in 1..out.n : isna(Canon(COL_RATING)[i])
    /\ view.index # <<>>
    /\ Len(view.index) < out.n

(* C29: when tab1 gives a mean, the mean_price passed to                   *)
(* find_high_value_games is the mean it would compute itself over its      *)
(* eligible records, so it returns the same with and without it.           *)
C29_MeanSuppliedOrComputed ==
    (Tab1Ran /\ view.price.fig) =>
        /\ Eligible = Priced
        /\ view.price.price_stats.mean = Quot(TotalPrice(Eligible), Cardinality(Eligible))
        /\ view.price.price_stats.mean = price_threshold(view.filtered_df, NoMean)
        /\ find_high_value_games(view.filtered_df, view.price.price_stats.mean)
              = find_high_value_games(view.filtered_df, NoMean)
        /\ Tab5Ran => view.high \in find_high_value_games(view.filtered_df, NoMean)

(* a free game and a priced game in the filtered set, a priced game        *)
(* without a rating outside it, and a high-value game found                *)
C29_Witness ==
    /\ pc = "tab5"
    /\ \E k \in 1..view.filtered_df.n : PriceAt(k) = 0
    /\ \E i \in 1..out.n : isna(Canon(COL_RATING)[i]) /\ Canon(COL_PRICE)[i].n > 0
    /\ view.high.fig
    /\ view.high.high_value_games # <<>>

====
